---- MODULE Spec2Model ----
(***************************************************************************)
(* A model of bin/cr.py: the changelist store (ChangelistInfo), the        *)
(* changelist resolver (ParseUserArguments) over the git and svn backends, *)
(* and the review-gated check-in flow (executeCheckIn).                    *)
(*                                                                         *)
(* Python values are modelled as follows.  Strings are TLA+ strings, None  *)
(* is the reserved string None (no name, file or branch of the model is    *)
(* equal to it), a dict is a function, a list is a sequence.               *)
(***************************************************************************)
EXTENDS Integers, Sequences, FiniteSets, TLC

VARIABLES
  changelist_info,  \* the ChangelistInfo object: the three maps of the store
  config_file,      \* the store file .git/changelist
  git,              \* what the git binary reports: branches, diffs, status
  svn,              \* what 'svn status' reports: file -> type and changelist
  CMD,              \* vcs.CMD, the backend chosen by GetVCS: "git" or "svn"
  last,             \* the last operation performed, its arguments and result
  runs,             \* the number of store-changing commands run so far
  run               \* the mail, upload or finish run in progress: its argv,
                    \* locals, position, requests sent and output

vars == <<changelist_info, config_file, git, svn, CMD, last, runs, run>>

-----------------------------------------------------------------------------
(* Bounds of the model *)

\* longest file/branch argument list given to one command or store call
MaxArgs == 2

\* most runs of 'cr changelist' before the resolver is applied
MaxRuns == 2

-----------------------------------------------------------------------------
(* Python values *)

None == "<None>"

\* Python truthiness of an optional string: None and "" are false
Truthy(s) == s # None /\ s # ""

EmptyDict == <<>>

DictPop(d, k) == [x \in (DOMAIN d) \ {k} |-> d[x]]

DictSet(d, k, v) == [x \in (DOMAIN d) \cup {k} |-> IF x = k THEN v ELSE d[x]]

DictGet(d, k, default) == IF k \in DOMAIN d THEN d[k] ELSE default

SeqToSet(s) == {s[i] : i \in 1..Len(s)}

\* the characters of the model's strings, in code-point order
Alphabet == " '-./0123456789:?ABCDEFGHIJKLMNOPQRSTUVWXYZ_abcdefghijklmnopqrstuvwxyz"

Ord(c) == CHOOSE i \in 1..Len(Alphabet) : SubSeq(Alphabet, i, i) = c

\* Python's < on str: lexicographic by code point
RECURSIVE StrLess(_, _)
StrLess(a, b) ==
  IF Len(b) = 0 THEN FALSE
  ELSE IF Len(a) = 0 THEN TRUE
  ELSE LET ca == Ord(SubSeq(a, 1, 1))
           cb == Ord(SubSeq(b, 1, 1))
       IN IF ca # cb THEN ca < cb
          ELSE StrLess(SubSeq(a, 2, Len(a)), SubSeq(b, 2, Len(b)))

\* sorted(list(S)) for a set of strings
sorted(S) == SortSeq(CHOOSE s \in [1..Cardinality(S) -> S] : SeqToSet(s) = S, StrLess)

\* sequences over S of length 0..n
SeqsUpTo(S, n) == UNION {[1..k -> S] : k \in 0..n}

\* sub in s, for strings
Contains(s, sub) ==
  \E i \in 1..(Len(s) - Len(sub) + 1) : SubSeq(s, i, i + Len(sub) - 1) = sub

StartsWith(s, prefix) ==
  Len(s) >= Len(prefix) /\ SubSeq(s, 1, Len(prefix)) = prefix

UpperCase == "ABCDEFGHIJKLMNOPQRSTUVWXYZ"

LowerCase == "abcdefghijklmnopqrstuvwxyz"

\* s.lower(): how re.IGNORECASE compares the letters of a pattern
RECURSIVE lower(_)
lower(s) ==
  IF Len(s) = 0 THEN ""
  ELSE LET c == SubSeq(s, 1, 1)
           hit == {i \in 1..Len(UpperCase) : SubSeq(UpperCase, i, i) = c}
           lc == IF hit = {} THEN c
                 ELSE LET i == CHOOSE j \in hit : TRUE
                      IN SubSeq(LowerCase, i, i)
       IN lc \o lower(SubSeq(s, 2, Len(s)))

Digits == "0123456789"

IsDigit(c) == \E i \in 1..Len(Digits) : SubSeq(Digits, i, i) = c

\* the longest prefix of s matched by \d*
RECURSIVE LeadingDigits(_)
LeadingDigits(s) ==
  IF Len(s) = 0 \/ ~IsDigit(SubSeq(s, 1, 1)) THEN ""
  ELSE SubSeq(s, 1, 1) \o LeadingDigits(SubSeq(s, 2, Len(s)))

\* int(s) for a string of digits
RECURSIVE int(_)
int(s) ==
  IF Len(s) = 0 THEN 0
  ELSE 10 * int(SubSeq(s, 1, Len(s) - 1))
       + (CHOOSE i \in 1..Len(Digits) : SubSeq(Digits, i, i) = SubSeq(s, Len(s), Len(s)))
       - 1

\* "%d" % n and str(n) for n >= 0
RECURSIVE str(_)
str(n) ==
  IF n < 10 THEN SubSeq(Digits, n + 1, n + 1)
  ELSE str(n \div 10) \o SubSeq(Digits, (n % 10) + 1, (n % 10) + 1)

\* sep.join(list)
RECURSIVE join(_, _)
join(sep, list) ==
  IF Len(list) = 0 THEN ""
  ELSE IF Len(list) = 1 THEN list[1]
  ELSE list[1] \o sep \o join(sep, Tail(list))

-----------------------------------------------------------------------------
(* The domains the inputs are drawn from *)

BranchNames == {"master", "my_fix", "remotes/origin/master"}

-----------------------------------------------------------------------------
(* ChangelistInfo: the store *)

\* ChangelistInfo.__init__ with no store file present
EmptyChangelistInfo ==
  [changelist_to_branch |-> EmptyDict,
   changelist_to_files  |-> EmptyDict,
   hidden_branches      |-> <<>>]

isAChangelist(ci, changelist) ==
  \/ changelist \in DOMAIN ci.changelist_to_branch
  \/ changelist \in DOMAIN ci.changelist_to_files

removeChangelist(ci, changelist) ==
  [ci EXCEPT !.changelist_to_branch = DictPop(@, changelist),
             !.changelist_to_files  = DictPop(@, changelist)]

RemoveBranchKeepsOthers(ci, remote_branch, local_branch) == ci

removeBranchFromChangelist(ci, remote_branch, local_branch) ==
  LET ctb  == ci.changelist_to_branch
      keep == {cl \in DOMAIN ctb :
                 ~(ctb[cl][1] = remote_branch /\ ctb[cl][2] = local_branch)}
  IN [ci EXCEPT !.changelist_to_branch = [cl \in keep |-> ctb[cl]]]

moveBranchToChangelist(ci, remote_branch, local_branch, changelist) ==
  LET c1 == removeChangelist(ci, changelist)
      c2 == removeBranchFromChangelist(c1, remote_branch, local_branch)
  IN [c2 EXCEPT !.changelist_to_branch =
                   DictSet(@, changelist, <<remote_branch, local_branch>>)]

getBranchInfoFromChangelist(ci, changelist) ==
  DictGet(ci.changelist_to_branch, changelist, <<None, None>>)

getAllChangelistWithBranches(ci) == DOMAIN ci.changelist_to_branch

\* the first changelist holding the pair, in dict order; None if there is none
getChangelistFromBranch(ci, remote_branch, local_branch) ==
  LET ctb == ci.changelist_to_branch
      hit == {cl \in DOMAIN ctb :
                ctb[cl][1] = remote_branch /\ ctb[cl][2] = local_branch}
  IN IF hit = {} THEN None ELSE CHOOSE cl \in hit : TRUE

getAllBranchToChangelistInfo(ci) ==
  LET ctb == ci.changelist_to_branch
  IN [p \in {ctb[cl] : cl \in DOMAIN ctb} |->
        CHOOSE cl \in DOMAIN ctb : ctb[cl] = p]

RemoveFilesKeepsAll(ci, remove_files) == ci

\* a removeFiles that keeps the lists it has emptied
RemoveFilesKeepsEmpty(ci, remove_files) ==
  [ci EXCEPT !.changelist_to_files =
               [cl \in DOMAIN @ |->
                  sorted(SeqToSet(@[cl]) \ SeqToSet(remove_files))]]

\* every list is rebuilt sorted and without the removed files; a list left
\* empty is popped
removeFiles(ci, remove_files) ==
  LET ctf      == ci.changelist_to_files
      newl(cl) == sorted(SeqToSet(ctf[cl]) \ SeqToSet(remove_files))
      keep     == {cl \in DOMAIN ctf : Len(newl(cl)) # 0}
  IN [ci EXCEPT !.changelist_to_files = [cl \in keep |-> newl(cl)]]

\* an addFilesToChangelist that does not remove the files first
AddFilesAppends(ci, files, changelist) ==
  [ci EXCEPT !.changelist_to_files =
               DictSet(@, changelist, DictGet(@, changelist, <<>>) \o files)]

addFilesToChangelist(ci, files, changelist) ==
  LET c1  == removeFiles(ci, files)
      old == DictGet(c1.changelist_to_files, changelist, <<>>)
  IN [c1 EXCEPT !.changelist_to_files = DictSet(@, changelist, old \o files)]

getAllFiles(ci) ==
  UNION {SeqToSet(ci.changelist_to_files[cl]) : cl \in DOMAIN ci.changelist_to_files}

getFilesFromChangelist(ci, changelist) ==
  DictGet(ci.changelist_to_files, changelist, <<>>)

getAllChangelistWithFiles(ci) == DOMAIN ci.changelist_to_files

\* a hideBranchFromStatus that hides a branch by dropping the changelists it
\* is the remote branch of
HideBranchDropsChangelists(ci, branch) ==
  LET ctb == ci.changelist_to_branch
      kept == {cl \in DOMAIN ctb : ctb[cl][1] # branch}
  IN [ci EXCEPT !.changelist_to_branch = [cl \in kept |-> ctb[cl]],
                !.hidden_branches =
                  IF branch \in SeqToSet(@) THEN @ ELSE Append(@, branch)]

hideBranchFromStatus(ci, branch) ==
  IF branch \in SeqToSet(ci.hidden_branches) THEN ci
  ELSE [ci EXCEPT !.hidden_branches = Append(@, branch)]

\* list.remove drops the first occurrence
showBranchInStatus(ci, branch) ==
  LET h == ci.hidden_branches
  IN IF branch \notin SeqToSet(h) THEN ci
     ELSE LET i == CHOOSE j \in 1..Len(h) :
                     h[j] = branch /\ \A k \in 1..(j - 1) : h[k] # branch
          IN [ci EXCEPT !.hidden_branches =
                          SubSeq(h, 1, i - 1) \o SubSeq(h, i + 1, Len(h))]

getAllHiddenBranches(ci) == ci.hidden_branches

-----------------------------------------------------------------------------
(* The store file .git/changelist *)

\* content of a store file that does not exist
NoFile == [exists |-> FALSE]

\* the names of the model that are not ASCII: byte strings (Python 2 str) as
\* sys.argv gives them, in UTF-8
ByteNames == {"r\\xc3\\xa9paration"}

\* the unicode object json.loads returns for the text json.dumps writes for
\* a string: equal to the string (and with the same hash) if it is ASCII, a
\* different value if it is a byte string with non-ASCII characters; a
\* unicode object is written and read back as itself
Unicode(s) == IF s \in ByteNames THEN "u'" \o s \o "'" ELSE s

\* the same for a list of strings and for a dict of lists of strings (two
\* keys with the same text: the file has one of them)
UnicodeList(l) == [i \in 1..Len(l) |-> Unicode(l[i])]

UnicodeDict(d) ==
  [k \in {Unicode(x) : x \in DOMAIN d} |->
     UnicodeList(d[CHOOSE x \in DOMAIN d : Unicode(x) = k])]

\* save: json.dumps of the three maps, written over the file; the file is
\* modelled by what json.loads makes of its text
save(ci) ==
  [exists |-> TRUE,
   BRANCHES |-> UnicodeDict(ci.changelist_to_branch),
   STAGED_AND_WORKING |-> UnicodeDict(ci.changelist_to_files),
   HIDDEN_BRANCHES |-> UnicodeList(ci.hidden_branches)]

\* load: the three maps of the file; the object is left as it is when the
\* file does not exist
load(ci, file) ==
  IF ~file.exists THEN ci
  ELSE [changelist_to_branch |-> file.BRANCHES,
        changelist_to_files  |-> file.STAGED_AND_WORKING,
        hidden_branches      |-> file.HIDDEN_BRANCHES]

\* ChangelistInfo.__init__
NewChangelistInfo(file) == load(EmptyChangelistInfo, file)

-----------------------------------------------------------------------------
(* FileInfo and FileGroupInfo *)

STAGED == "__staged__"

WORKING == "__working__"

TYPE_FILES == "f"

TYPE_BRANCH == "b"

FileInfo(name, type, changelist) ==
  [name |-> name, type |-> type, changelist |-> changelist,
   branch_info |-> EmptyDict, status |-> None]

getBranchInfo(fileinfo, branch) == DictGet(fileinfo.branch_info, branch, None)

FileGroupInfo(name, type, fileinfo_list, remote_branch, local_branch) ==
  [name |-> name, type |-> type, fileinfo_list |-> fileinfo_list,
   remote_branch |-> remote_branch, local_branch |-> local_branch]

\* [f.name for f in fileinfo_list if f.type != '?']
CommittableNames(fileinfo_list) ==
  SelectSeq([i \in 1..Len(fileinfo_list) |->
               IF fileinfo_list[i].type # "?" THEN fileinfo_list[i].name ELSE None],
            LAMBDA n : n # None)

\* the file names of a fileinfo_list
NamesOf(fileinfo_list) == {fileinfo_list[i].name : i \in 1..Len(fileinfo_list)}

-----------------------------------------------------------------------------
(* The git backend.  git.current_branch and git.branches are what 'git     *)
(* branch -a' lists, git.diff[file] the branches whose 'git diff           *)
(* --name-only <branch> <current>' lists the file, git.status[file] the two *)
(* status characters of its 'git status --porcelain' line.                 *)

\* _getCurrentGitInfo: file -> FileInfo, keyed by every file that a branch
\* diff or the status lists.  A file first seen in the status gets type '?'.
git_fileinfo(g) ==
  LET indiff == IF g.current_branch # "(no branch)" THEN DOMAIN g.diff ELSE {}
      slots(file) ==
        (IF file \in indiff THEN g.diff[file] ELSE {})
        \cup (IF file \in DOMAIN g.status /\ g.status[file][1] # " "
              THEN {STAGED} ELSE {})
        \cup (IF file \in DOMAIN g.status /\ g.status[file][2] # " "
              THEN {WORKING} ELSE {})
      slot(file, b) == IF b = STAGED THEN g.status[file][1]
                       ELSE IF b = WORKING THEN g.status[file][2]
                       ELSE "*"
      type(file) == IF file \in indiff THEN None
                    ELSE IF g.status[file][1] # " " \/ g.status[file][2] # " "
                         THEN "?" ELSE None
  IN [file \in indiff \cup DOMAIN g.status |->
        [FileInfo(file, type(file), None) EXCEPT
           !.branch_info = [b \in slots(file) |-> slot(file, b)]]]

\* _getValidGitFiles
getValidGitFiles(g) == DOMAIN git_fileinfo(g)

BranchInfoIsChecked(g, remote_branch) ==
  IF g.current_branch = remote_branch
  THEN [err |-> "You cannot specify the current branch.",
        remote_branch |-> None, local_branch |-> None]
  ELSE LET full == IF remote_branch = "origin"
                   THEN "remotes/origin/" \o g.current_branch
                   ELSE IF StartsWith(remote_branch, "origin/")
                        THEN "remotes/" \o remote_branch
                        ELSE remote_branch
       IN IF full \in g.branches
          THEN [err |-> None, remote_branch |-> full,
                local_branch |-> g.current_branch]
          ELSE [err |-> None, remote_branch |-> None, local_branch |-> None]

\* GitVCS.getBranchInfoFromRemoteBranchName: the loop over the branches
\* returns on its first iteration, whatever the branch is
GitGetBranchInfoFromRemoteBranchName(g, remote_branch) ==
  IF g.current_branch = remote_branch
  THEN [err |-> "You cannot specify the current branch.",
        remote_branch |-> None, local_branch |-> None]
  ELSE LET full == IF remote_branch = "origin"
                   THEN "remotes/origin/" \o g.current_branch
                   ELSE IF StartsWith(remote_branch, "origin/")
                        THEN "remotes/" \o remote_branch
                        ELSE remote_branch
       IN IF g.branches # {}
          THEN [err |-> None, remote_branch |-> full,
                local_branch |-> g.current_branch]
          ELSE [err |-> None, remote_branch |-> None, local_branch |-> None]

\* GitVCS.getFileGroupInfo: the files with a staged or working status grouped
\* by the changelist the store lists them under (None for none), then the
\* store's branch changelists of the current branch
GitGetFileGroupInfo(ci, g, changelist) ==
  IF Truthy(changelist) /\ ~isAChangelist(ci, changelist)
  THEN [err |-> "Changelist does not exist.", groups |-> EmptyDict]
  ELSE
    LET ctf == ci.changelist_to_files
        workingfile_to_changelist(file) ==
          LET hit == {cl \in DOMAIN ctf : file \in SeqToSet(ctf[cl])}
          IN IF hit = {} THEN None ELSE CHOOSE cl \in hit : TRUE
        fi == git_fileinfo(g)
        status(file) ==
          IF Truthy(getBranchInfo(fi[file], STAGED))
          THEN getBranchInfo(fi[file], STAGED)
          ELSE getBranchInfo(fi[file], WORKING)
        changed == {file \in DOMAIN fi : Truthy(status(file))}
        filecls == {workingfile_to_changelist(file) : file \in changed}
        members(cl) ==
          LET names == sorted({file \in changed :
                                 workingfile_to_changelist(file) = cl})
          IN [i \in 1..Len(names) |->
                [fi[names[i]] EXCEPT !.status = status(names[i]),
                                     !.changelist = cl]]
        ctb == ci.changelist_to_branch
        branchcls == {cl \in DOMAIN ctb : ctb[cl][2] = g.current_branch}
    IN [err |-> None,
        groups |->
          [cl \in filecls \cup branchcls |->
             IF cl \in branchcls
             THEN FileGroupInfo(cl, TYPE_BRANCH, None, ctb[cl][1], ctb[cl][2])
             ELSE FileGroupInfo(cl, TYPE_FILES, members(cl), None, None)]]

-----------------------------------------------------------------------------
(* The svn backend.  svn[file] is the file's line of 'svn status': its     *)
(* status character and the native changelist it is listed under.          *)

\* SubversionVCS.getFileGroupInfo: 'svn status' of the given paths, limited
\* to one changelist when one is given, grouped by changelist
SvnGetFileGroupInfo(sv, changelist, opt_files) ==
  LET shown == {file \in DOMAIN sv :
                  /\ (Len(opt_files) > 0 => file \in SeqToSet(opt_files))
                  /\ (Truthy(changelist) => sv[file].changelist = changelist)}
      cls == {sv[file].changelist : file \in shown}
      members(cl) ==
        LET names == sorted({file \in shown : sv[file].changelist = cl})
        IN [i \in 1..Len(names) |-> FileInfo(names[i], sv[names[i]].type, cl)]
  IN [err |-> None,
      groups |-> [cl \in cls |->
                    FileGroupInfo(cl, TYPE_FILES, members(cl), None, None)]]

-----------------------------------------------------------------------------
(* The vcs object: the backend, its store and what the binary reports *)

VCS(cmd, ci, g, sv) == [CMD |-> cmd, changelist_info |-> ci, git |-> g, svn |-> sv]

getFileGroupInfo(vcs, changelist, opt_files) ==
  IF vcs.CMD = "git"
  THEN GitGetFileGroupInfo(vcs.changelist_info, vcs.git, changelist)
  ELSE SvnGetFileGroupInfo(vcs.svn, changelist, opt_files)

\* CrBaseVCS.getBranchInfoFromRemoteBranchName returns (None, None)
getBranchInfoFromRemoteBranchName(vcs, remote_branch) ==
  IF vcs.CMD = "git"
  THEN GitGetBranchInfoFromRemoteBranchName(vcs.git, remote_branch)
  ELSE [err |-> None, remote_branch |-> None, local_branch |-> None]

\* the outcome of a method that may change the store: the object, the store
\* file, and the ErrorExit message if it ended the process
Out(ci, file, err) == [ci |-> ci, file |-> file, err |-> err]

\* GitVCS.moveFilesToChangelist; SubversionVCS.moveFilesToChangelist runs
\* 'svn changelist' and touches no store
GitMoveFilesToChangelist(ci, file, g, file_list, changelist) ==
  IF Len(file_list) = 0 THEN Out(ci, file, "Unable to find any file.")
  ELSE IF SeqToSet(file_list) \subseteq getValidGitFiles(g)
       THEN LET c1 == addFilesToChangelist(ci, file_list, changelist)
            IN Out(c1, save(c1), None)
       ELSE Out(ci, file, "needs to be a staged or working file")

GitMoveBranchToChangelist(ci, file, remote_branch, local_branch, changelist) ==
  LET c1 == moveBranchToChangelist(ci, remote_branch, local_branch, changelist)
  IN Out(c1, save(c1), None)

GitRemoveBranchFromChangelist(ci, file, remote_branch, local_branch) ==
  LET c1 == removeBranchFromChangelist(ci, remote_branch, local_branch)
  IN Out(c1, save(c1), None)

GitRemoveChangelist(ci, file, changelist) ==
  LET c1 == removeChangelist(ci, changelist)
  IN Out(c1, save(c1), None)

\* the loop of 'changelist --remove --changelist cl1 cl2 ...': stops at the
\* first name that is no changelist
RECURSIVE RemoveChangelists(_, _)
RemoveChangelists(ci, cls) ==
  IF Len(cls) = 0 THEN [ci |-> ci, err |-> None]
  ELSE IF isAChangelist(ci, Head(cls))
       THEN RemoveChangelists(removeChangelist(ci, Head(cls)), Tail(cls))
       ELSE [ci |-> ci, err |-> "is not a changelist"]

\* GitVCS.parseGitChangelistOptions, on the args of 'cr changelist' (Main
\* passes at least two)
parseGitChangelistOptions(ci, file, g, args) ==
  IF args[1] \in {"--remove", "--rm"}
  THEN
    IF args[2] \in {"--changelist", "--cl"}
    THEN LET r == RemoveChangelists(ci, SubSeq(args, 3, Len(args)))
         IN IF r.err # None THEN Out(r.ci, file, r.err)
            ELSE Out(r.ci, save(r.ci), None)
    ELSE
      LET rest == Tail(args)
          b == GitGetBranchInfoFromRemoteBranchName(g, rest[1])
          c1 == removeFiles(ci, rest)
      IN IF Len(rest) = 1 /\ b.err # None THEN Out(ci, file, b.err)
         ELSE IF /\ Len(rest) = 1
                 /\ <<b.remote_branch, b.local_branch>>
                      \in DOMAIN getAllBranchToChangelistInfo(ci)
              THEN GitRemoveBranchFromChangelist(ci, file, b.remote_branch,
                                                 b.local_branch)
              ELSE Out(c1, save(c1), None)
  ELSE
    LET changelist == args[1]
        files == Tail(args)
        b == GitGetBranchInfoFromRemoteBranchName(g, files[1])
    IN IF Len(files) = 1 /\ b.err # None THEN Out(ci, file, b.err)
       ELSE IF Len(files) = 1 /\ Truthy(b.remote_branch) /\ Truthy(b.local_branch)
            THEN GitMoveBranchToChangelist(ci, file, b.remote_branch,
                                           b.local_branch, changelist)
            ELSE GitMoveFilesToChangelist(ci, file, g, files, changelist)

-----------------------------------------------------------------------------
(* ParseUserArguments *)

\* what ParseUserArguments returns, or the ErrorExit that ended it; listed is
\* the list of names in the message of the ambiguity error, calls the vcs
\* methods it asked
Resolved(cl, fileinfo_list, remote_branch, local_branch, calls) ==
  [err |-> None, cl |-> cl, fileinfo_list |-> fileinfo_list,
   remote_branch |-> remote_branch, local_branch |-> local_branch,
   listed |-> {}, calls |-> calls]

Failed(err, listed, calls) ==
  [err |-> err, cl |-> None, fileinfo_list |-> None, remote_branch |-> None,
   local_branch |-> None, listed |-> listed, calls |-> calls]

FromGroup(cl, filegroup_info, calls) ==
  Resolved(cl, filegroup_info.fileinfo_list, filegroup_info.remote_branch,
           filegroup_info.local_branch, calls)

PickFileGroupPlaceholderFirst(groups, calls) ==
  LET cl_len == Cardinality(DOMAIN groups)
                  - (IF None \in DOMAIN groups THEN 1 ELSE 0)
  IN IF None \in DOMAIN groups
     THEN FromGroup("issue", groups[None], calls)
     ELSE IF cl_len = 1
          THEN LET cl == CHOOSE k \in (DOMAIN groups) \ {None} : TRUE
               IN FromGroup(cl, groups[cl], calls)
          ELSE IF cl_len = 0
               THEN Failed("Unable to find a suitable changelist to use.", {},
                           calls)
               ELSE Failed("There is more than one changelist or branch.",
                           {cl \in DOMAIN groups : Truthy(cl)}, calls)

PickFileGroupNeedsAName(groups, calls) ==
  LET cl_len == Cardinality(DOMAIN groups)
                  - (IF None \in DOMAIN groups THEN 1 ELSE 0)
  IN IF cl_len = 1
     THEN LET cl == CHOOSE k \in (DOMAIN groups) \ {None} : TRUE
          IN FromGroup(cl, groups[cl], calls)
     ELSE IF cl_len = 0
          THEN Failed("Unable to find a suitable changelist to use.", {}, calls)
          ELSE Failed("There is more than one changelist or branch.",
                      {cl \in DOMAIN groups : Truthy(cl)}, calls)

\* the branch of ParseUserArguments taken when no changelist and no file is
\* given: pick the one named changelist, else the unnamed group
PickFileGroup(groups, calls) ==
  LET cl_len == Cardinality(DOMAIN groups)
                  - (IF None \in DOMAIN groups THEN 1 ELSE 0)
  IN IF cl_len = 1
     THEN LET cl == CHOOSE k \in (DOMAIN groups) \ {None} : TRUE
          IN FromGroup(cl, groups[cl], calls)
     ELSE IF cl_len = 0
          THEN IF None \in DOMAIN groups
               THEN FromGroup("issue", groups[None], calls)
               ELSE Failed("Unable to find a suitable changelist to use.", {},
                           calls)
          ELSE Failed("There is more than one changelist or branch.",
                      {cl \in DOMAIN groups : Truthy(cl)}, calls)

\* the branch of ParseUserArguments taken when files or a branch are given
FromUserFiles(vcs, opt_files, calls) ==
  LET b == IF Len(opt_files) = 1
           THEN getBranchInfoFromRemoteBranchName(vcs, opt_files[1])
           ELSE [err |-> None, remote_branch |-> None, local_branch |-> None]
      calls1 == IF Len(opt_files) = 1
                THEN Append(calls, "getBranchInfoFromRemoteBranchName")
                ELSE calls
  IN IF b.err # None THEN Failed(b.err, {}, calls1)
     ELSE IF Truthy(b.remote_branch) /\ Truthy(b.local_branch)
          THEN LET c == getChangelistFromBranch(vcs.changelist_info,
                                                b.remote_branch, b.local_branch)
               IN Resolved(IF Truthy(c) THEN c ELSE "issue", None,
                           b.remote_branch, b.local_branch,
                           Append(calls1, "getChangelistFromBranch"))
          ELSE Resolved("issue",
                        [i \in 1..Len(opt_files) |->
                           FileInfo(opt_files[i], "*", "issue")],
                        None, None, calls1)

ParseUserArgumentsFilesFirst(vcs, opt_revision, opt_changelist, opt_files) ==
  IF Truthy(opt_revision)
  THEN Resolved(IF Truthy(opt_changelist) THEN opt_changelist ELSE "issue",
                <<>>, None, None, <<>>)
  ELSE
    LET g == getFileGroupInfo(vcs, opt_changelist, <<>>)
        calls == <<"getFileGroupInfo">>
    IN IF g.err # None THEN Failed(g.err, {}, calls)
       ELSE IF Len(opt_files) # 0
            THEN FromUserFiles(vcs, opt_files, calls)
            ELSE IF Truthy(opt_changelist)
                 THEN IF opt_changelist \in DOMAIN g.groups
                      THEN FromGroup(opt_changelist, g.groups[opt_changelist],
                                     calls)
                      ELSE Failed("Unable to find changelist", {}, calls)
                 ELSE PickFileGroup(g.groups, calls)

ParseUserArgumentsGroupsFirst(vcs, opt_revision, opt_changelist, opt_files) ==
  LET g == getFileGroupInfo(vcs, opt_changelist, <<>>)
      calls == <<"getFileGroupInfo">>
  IN IF g.err # None THEN Failed(g.err, {}, calls)
     ELSE IF Truthy(opt_revision)
          THEN Resolved(IF Truthy(opt_changelist) THEN opt_changelist
                        ELSE "issue", <<>>, None, None, calls)
          ELSE IF Truthy(opt_changelist)
               THEN IF opt_changelist \in DOMAIN g.groups
                    THEN FromGroup(opt_changelist, g.groups[opt_changelist],
                                   calls)
                    ELSE Failed("Unable to find changelist", {}, calls)
               ELSE IF Len(opt_files) = 0
                    THEN PickFileGroup(g.groups, calls)
                    ELSE FromUserFiles(vcs, opt_files, calls)

ParseUserArguments(vcs, opt_revision, opt_changelist, opt_files) ==
  IF Truthy(opt_revision)
  THEN Resolved(IF Truthy(opt_changelist) THEN opt_changelist ELSE "issue",
                <<>>, None, None, <<>>)
  ELSE
    LET g == getFileGroupInfo(vcs, opt_changelist, <<>>)
        calls == <<"getFileGroupInfo">>
    IN IF g.err # None THEN Failed(g.err, {}, calls)
       ELSE IF Truthy(opt_changelist)
            THEN IF opt_changelist \in DOMAIN g.groups
                 THEN FromGroup(opt_changelist, g.groups[opt_changelist], calls)
                 ELSE Failed("Unable to find changelist", {}, calls)
            ELSE IF Len(opt_files) = 0
                 THEN PickFileGroup(g.groups, calls)
                 ELSE FromUserFiles(vcs, opt_files, calls)

-----------------------------------------------------------------------------
(* The record of the last operation: its name, its arguments, what the     *)
(* store held for them before it, and its result                           *)

NoPair == <<None, None>>

Call(op, changelist, files, pair, prev, result) ==
  [op |-> op, changelist |-> changelist, files |-> files, pair |-> pair,
   prev |-> prev, result |-> result]

NoCall == Call("init", None, <<>>, NoPair, NoPair, None)

\* the changelists that list one of the files
HoldersOf(ci, files) ==
  {cl \in DOMAIN ci.changelist_to_files :
     SeqToSet(ci.changelist_to_files[cl]) \cap SeqToSet(files) # {}}

\* an environment for the specifications that never ask the backend
NoGit == [current_branch |-> None, branches |-> {}, diff |-> EmptyDict,
          status |-> EmptyDict, log |-> <<>>]

NoSvn == EmptyDict

\* no mail, upload or finish run
NoRun == [pc |-> "none"]

-----------------------------------------------------------------------------
(* SpecStore: any sequence of calls of the store's mutators, from the      *)
(* empty store, with the arguments their callers can pass                  *)

\* the file lists a caller passes: GitVCS.moveFilesToChangelist refuses an
\* empty list, and 'changelist --remove' needs at least one path
StoreNames == {"", "fix", "issue7"}

StoreFiles == {"a.py", "b.py"}

FileArgs == SeqsUpTo(StoreFiles, MaxArgs) \ {<<>>}

StoreRemotes == {"master", "remotes/origin/master"}

StoreLocals == {"master", "my_fix"}

StoreHidden == {"remotes/origin/master"}

StoreFrame == UNCHANGED <<config_file, git, svn, CMD, runs, run>>

InitStore ==
  /\ changelist_info = EmptyChangelistInfo
  /\ config_file = NoFile
  /\ git = NoGit
  /\ svn = NoSvn
  /\ CMD = "git"
  /\ last = NoCall
  /\ runs = 0
  /\ run = NoRun

CallAddFilesToChangelist ==
  \E files \in FileArgs, changelist \in StoreNames :
    /\ changelist_info' = addFilesToChangelist(changelist_info, files, changelist)
    /\ last' = Call("addFilesToChangelist", changelist, files, NoPair,
                    HoldersOf(changelist_info, files), None)
    /\ StoreFrame

CallRemoveFiles ==
  \E files \in FileArgs :
    /\ changelist_info' = removeFiles(changelist_info, files)
    /\ last' = Call("removeFiles", None, files, NoPair, NoPair, None)
    /\ StoreFrame

CallRemoveChangelist ==
  \E changelist \in StoreNames :
    /\ changelist_info' = removeChangelist(changelist_info, changelist)
    /\ last' = Call("removeChangelist", changelist, <<>>, NoPair, NoPair, None)
    /\ StoreFrame

CallMoveBranchToChangelist ==
  \E remote_branch \in StoreRemotes, local_branch \in StoreLocals,
     changelist \in StoreNames :
    /\ changelist_info' =
         moveBranchToChangelist(changelist_info, remote_branch, local_branch,
                                changelist)
    /\ last' = Call("moveBranchToChangelist", changelist, <<>>,
                    <<remote_branch, local_branch>>,
                    getBranchInfoFromChangelist(changelist_info, changelist),
                    None)
    /\ StoreFrame

CallRemoveBranchFromChangelist ==
  \E remote_branch \in StoreRemotes, local_branch \in StoreLocals :
    /\ changelist_info' =
         removeBranchFromChangelist(changelist_info, remote_branch, local_branch)
    /\ last' = Call("removeBranchFromChangelist", None, <<>>,
                    <<remote_branch, local_branch>>, NoPair, None)
    /\ StoreFrame

CallHideBranchFromStatus ==
  \E branch \in StoreHidden :
    /\ changelist_info' = hideBranchFromStatus(changelist_info, branch)
    /\ last' = Call("hideBranchFromStatus", None, <<branch>>, NoPair, NoPair, None)
    /\ StoreFrame

CallShowBranchInStatus ==
  \E branch \in StoreHidden :
    /\ changelist_info' = showBranchInStatus(changelist_info, branch)
    /\ last' = Call("showBranchInStatus", None, <<branch>>, NoPair, NoPair, None)
    /\ StoreFrame

NextStore ==
  \/ CallAddFilesToChangelist
  \/ CallRemoveFiles
  \/ CallRemoveChangelist
  \/ CallMoveBranchToChangelist
  \/ CallRemoveBranchFromChangelist
  \/ CallHideBranchFromStatus
  \/ CallShowBranchInStatus

SpecStore == InitStore /\ [][NextStore]_vars

-----------------------------------------------------------------------------
(* SpecResolve: runs of 'cr changelist' build the store of a working copy, *)
(* the working tree changes between runs, and ParseUserArguments is        *)
(* applied, as at the start of mail, upload and finish, to every           *)
(* combination of its arguments.  An application of ParseUserArguments     *)
(* changes nothing the commands read, so it is explored as a last step.    *)

MakeGit(current_branch, diff, status, log) ==
  [current_branch |-> current_branch, branches |-> BranchNames,
   diff |-> diff, status |-> status, log |-> log]

\* working trees: clean; one modified file; a staged file and a file that is
\* committed on the branch and modified again; a modified file with the name
\* of a branch and an untracked file; modified files on master
GitTrees ==
  { MakeGit("my_fix", EmptyDict, EmptyDict, <<>>),
    MakeGit("my_fix", EmptyDict, "a.py" :> <<" ", "M">>, <<>>),
    MakeGit("my_fix", "b.py" :> {"master", "remotes/origin/master"},
            "a.py" :> <<"M", " ">> @@ "b.py" :> <<" ", "M">>, <<"Add b.py">>),
    MakeGit("my_fix", EmptyDict,
            "master" :> <<" ", "M">> @@ "a.py" :> <<"?", "?">>, <<>>),
    MakeGit("master", EmptyDict,
            "a.py" :> <<" ", "M">> @@ "b.py" :> <<"A", " ">>, <<>>) }

SvnLine(type, changelist) == [type |-> type, changelist |-> changelist]

\* svn working copies: clean; one modified file; files in and out of a native
\* changelist; two native changelists and an unversioned file
SvnTrees ==
  { EmptyDict,
    "a.py" :> SvnLine("M", None),
    "a.py" :> SvnLine("M", "fix") @@ "b.py" :> SvnLine("M", None),
    "a.py" :> SvnLine("M", "fix") @@ "b.py" :> SvnLine("A", "issue7")
      @@ "master" :> SvnLine("?", None) }

\* names given as file or branch arguments
ArgNames == {"a.py", "master", "origin"}

UserFiles == SeqsUpTo(ArgNames, MaxArgs)

\* the file or branch arguments the runs of 'cr changelist' are given: two
\* files, a file and a name that is a branch too, a branch, the remote of the
\* current branch, one file
ChangelistFiles ==
  {<<"a.py", "b.py">>, <<"master", "a.py">>, <<"master">>, <<"origin">>,
   <<"a.py">>}

\* the args of 'cr changelist'
ChangelistArgs ==
  {<<cl>> \o files : cl \in StoreNames, files \in ChangelistFiles}
  \cup {<<"--remove">> \o files : files \in ChangelistFiles}
  \cup {<<"--remove", "--changelist">> \o cls :
          cls \in {<<>>, <<"fix">>, <<"", "issue7">>}}

\* --changelist: absent, empty, or a name
OptChangelists == {None} \cup StoreNames

\* --rev: absent or a revision range
OptRevisions == {None, "b9319f:c82f04"}

InitResolve ==
  /\ changelist_info = EmptyChangelistInfo
  /\ config_file = NoFile
  /\ \/ CMD = "git" /\ git \in GitTrees /\ svn = NoSvn
     \/ CMD = "svn" /\ svn \in SvnTrees /\ git = NoGit
  /\ last = NoCall
  /\ runs = 0
  /\ run = NoRun

\* 'cr changelist ...' on the git backend
CmdChangelist ==
  /\ CMD = "git"
  /\ last.op # "ParseUserArguments"
  /\ runs < MaxRuns
  /\ runs' = runs + 1
  /\ \E args \in ChangelistArgs :
       LET o == parseGitChangelistOptions(NewChangelistInfo(config_file),
                                          config_file, git, args)
       IN /\ changelist_info' = o.ci
          /\ config_file' = o.file
          /\ last' = [op |-> "changelist", err |-> o.err]
  /\ UNCHANGED <<git, svn, CMD, run>>

\* a command passed through to the backend (executeAllCmd): checkout, add,
\* commit, 'svn changelist', or an edit, after which the binary reports
\* another tree
CmdPassThrough ==
  /\ last.op # "ParseUserArguments"
  /\ \/ CMD = "git" /\ git' \in GitTrees /\ svn' = svn
     \/ CMD = "svn" /\ svn' \in SvnTrees /\ git' = git
  /\ last' = [op |-> "executeAllCmd"]
  /\ UNCHANGED <<changelist_info, config_file, CMD, runs, run>>

\* the vcs object GetVCS builds at the start of a run
CurrentVCS == VCS(CMD, NewChangelistInfo(config_file), git, svn)

Resolve ==
  /\ last.op # "ParseUserArguments"
  /\ \E opt_revision \in OptRevisions, opt_changelist \in OptChangelists,
        opt_files \in UserFiles :
       last' = [op |-> "ParseUserArguments",
                opt_revision |-> opt_revision,
                opt_changelist |-> opt_changelist,
                opt_files |-> opt_files,
                result |-> ParseUserArguments(CurrentVCS, opt_revision,
                                              opt_changelist, opt_files)]
  /\ changelist_info' = NewChangelistInfo(config_file)
  /\ UNCHANGED <<config_file, git, svn, CMD, runs, run>>

NextResolve == CmdChangelist \/ CmdPassThrough \/ Resolve

SpecResolve == InitResolve /\ [][NextResolve]_vars

-----------------------------------------------------------------------------
(* The runs of mail, upload and finish: executeIssueNumberAndUpload,        *)
(* executeUploadPy and executeCheckIn.  A run is a sequence of steps, one   *)
(* for each stretch of code between two answers of the review service, of    *)
(* upload.py or of a committing backend command.  The backend's read-only   *)
(* commands (status, diff --name-only, branch, log) answer from git and svn. *)

SERVER == "codereview.example"

\* the tries of fetchContentFromUrl and of the publish loop
Tries == 3

\* '%d' % int(m.group(1)) for m = re.match(r'issue(\d+)', cl), None when the
\* name does not match
IssueOf(cl) ==
  IF Truthy(cl) /\ StartsWith(cl, "issue")
  THEN IF LeadingDigits(SubSeq(cl, 6, Len(cl))) = "" THEN None
       ELSE str(int(LeadingDigits(SubSeq(cl, 6, Len(cl)))))
  ELSE None

\* the options and arguments parsed from argv by CrOptionParser
Options(force, revision, changelist, message, reviewers, cc, user_files) ==
  [force |-> force, revision |-> revision, changelist |-> changelist,
   message |-> message, reviewers |-> reviewers, cc |-> cc,
   user_files |-> user_files]

\* 'c' in options.cc.split(",")
CcHasC(cc) ==
  \/ cc = "c"
  \/ StartsWith(cc, "c,")
  \/ Contains(cc, ",c,")
  \/ (Len(cc) >= 2 /\ SubSeq(cc, Len(cc) - 1, Len(cc)) = ",c")

\* what a run reads and changes: the store object, the store file, and what
\* the backend reports
World(ci, file, g, sv) == [ci |-> ci, file |-> file, git |-> g, svn |-> sv]

\* the world after a method of the git backend that returned o
WithStore(w, o) == [w EXCEPT !.ci = o.ci, !.file = o.file]

\* the result of a stretch of code: the world after it and the message of
\* the ErrorExit (or uncaught exception) that ended the run, if any
Step(w, err) == [w |-> w, err |-> err]

\* 'svn changelist <name> <files>', or with --remove for name = None
SvnChangelist(sv, files, name) ==
  [f \in DOMAIN sv |->
     IF f \in files THEN [sv[f] EXCEPT !.changelist = name] ELSE sv[f]]

\* SubversionVCS.moveFilesToChangelist runs 'svn changelist'; svn_ok is
\* whether the command exits with 0 (it cannot for a path svn does not list)
SvnMoveFilesToChangelist(w, file_list, changelist, svn_ok) ==
  IF Len(file_list) = 0 THEN Step(w, None)
  ELSE IF svn_ok /\ SeqToSet(file_list) \subseteq DOMAIN w.svn
       THEN Step([w EXCEPT !.svn = SvnChangelist(@, SeqToSet(file_list),
                                                 changelist)],
                 None)
       ELSE Step([w EXCEPT !.svn = SvnChangelist(@, SeqToSet(file_list), None)],
                 "Unable to move files into changelist")

moveFilesToChangelist(cmd, w, file_list, changelist, svn_ok) ==
  IF cmd = "git"
  THEN Step(WithStore(w, GitMoveFilesToChangelist(w.ci, w.file, w.git,
                                                  file_list, changelist)),
            GitMoveFilesToChangelist(w.ci, w.file, w.git, file_list,
                                     changelist).err)
  ELSE SvnMoveFilesToChangelist(w, file_list, changelist, svn_ok)

\* GitVCS._getGitCommitLogList: the subjects of the commits that the current
\* branch is ahead by
getGitCommitLogList(g) == g.log

\* what executeIssueNumberAndUpload hands to executeUploadPy and keeps for
\* its last lines
UploadArgs(cl, fileinfo_list, file_list, remote_branch, local_branch, existing_cl, message, first_upload, issue) ==
  [cl |-> cl, fileinfo_list |-> fileinfo_list, file_list |-> file_list,
   remote_branch |-> remote_branch, local_branch |-> local_branch,
   existing_cl |-> existing_cl, message |-> message,
   first_upload |-> first_upload, issue |-> issue]

NoUpload == UploadArgs(None, None, <<>>, None, None, None, None, FALSE, None)

\* options.message of executeIssueNumberAndUpload: on git, the subjects of
\* the commits when no --message is given
UploadMessage(cmd, g, argv) ==
  IF cmd = "git" /\ ~Truthy(argv.message) /\ Len(getGitCommitLogList(g)) > 0
  THEN join(" ", getGitCommitLogList(g))
  ELSE argv.message

Moved(w, err, file_list, existing_cl) ==
  [w |-> w, err |-> err, file_list |-> file_list, existing_cl |-> existing_cl]

MovedFiles(cmd, w, file_list, cl, svn_ok) ==
  IF Len(file_list) > 0
  THEN Moved(moveFilesToChangelist(cmd, w, file_list, cl, svn_ok).w,
             moveFilesToChangelist(cmd, w, file_list, cl, svn_ok).err,
             file_list, None)
  ELSE Moved(w, None, file_list, None)

MovedBranch(w, r, existing_cl) ==
  Moved(IF existing_cl # r.cl
        THEN WithStore(w, GitMoveBranchToChangelist(w.ci, w.file,
                                                    r.remote_branch,
                                                    r.local_branch, r.cl))
        ELSE w,
        None, <<r.remote_branch, r.local_branch>>, existing_cl)

\* file_list and existing_cl of executeIssueNumberAndUpload and the move of
\* the group under the resolved name r.cl.  A group with no branch pair has
\* a list for its fileinfo_list.
MoveGroup(cmd, w, argv, r, svn_ok) ==
  IF Truthy(argv.revision)
  THEN Moved(w, None, <<>>,
             IF Truthy(argv.changelist) THEN argv.changelist ELSE r.cl)
  ELSE IF Truthy(r.remote_branch) \/ Truthy(r.local_branch)
       THEN MovedBranch(w, r, getChangelistFromBranch(w.ci, r.remote_branch,
                                                      r.local_branch))
       ELSE IF Len(r.fileinfo_list) > 0
            THEN MovedFiles(cmd, w, CommittableNames(r.fileinfo_list), r.cl,
                            svn_ok)
            ELSE Moved(w, "NameError: filegroup_info", <<>>, None)

Prepared(w, err, up) == [w |-> w, err |-> err, up |-> up]

\* the upload with no reviewer check
CheckedUploadAnyReviewers(argv, r, message, m, diff_ok) ==
  IF m.err # None THEN Prepared(m.w, m.err, NoUpload)
  ELSE IF ~diff_ok THEN Prepared(m.w, "GenerateDiff failed", NoUpload)
  ELSE IF Len(message) < 5 THEN Prepared(m.w, "Message too short.", NoUpload)
  ELSE Prepared(m.w, None,
                UploadArgs(r.cl, r.fileinfo_list, m.file_list,
                           r.remote_branch, r.local_branch, m.existing_cl,
                           message, IssueOf(r.cl) = None, IssueOf(r.cl)))

\* the reviewer check of executeIssueNumberAndUpload and executeUploadPy up
\* to its last line; diff_ok is whether vcs.GenerateDiff returns a diff
CheckedUpload(argv, r, message, m, diff_ok) ==
  IF m.err # None THEN Prepared(m.w, m.err, NoUpload)
  ELSE IF IssueOf(r.cl) = None /\ ~Truthy(argv.reviewers)
       THEN Prepared(m.w, "Please specify at least one --reviewer", NoUpload)
  ELSE IF ~diff_ok THEN Prepared(m.w, "GenerateDiff failed", NoUpload)
  ELSE IF Len(message) < 5 THEN Prepared(m.w, "Message too short.", NoUpload)
  ELSE Prepared(m.w, None,
                UploadArgs(r.cl, r.fileinfo_list, m.file_list,
                           r.remote_branch, r.local_branch, m.existing_cl,
                           message, IssueOf(r.cl) = None, IssueOf(r.cl)))

\* executeIssueNumberAndUpload after ParseUserArguments returned r
ResolvedUpload(cmd, w, argv, r, message, diff_ok, svn_ok) ==
  IF Truthy(argv.cc) /\ CcHasC(argv.cc)
  THEN Prepared(w, "Do you mean to use --cc instead of -cc?", NoUpload)
  ELSE IF r.err # None THEN Prepared(w, r.err, NoUpload)
  ELSE IF ~Truthy(message)
       THEN Prepared(w, "Please specify --message", NoUpload)
  ELSE CheckedUpload(argv, r, message, MoveGroup(cmd, w, argv, r, svn_ok),
                     diff_ok)

\* executeIssueNumberAndUpload up to the call of upload.RealMain
PrepareUpload(cmd, w, argv, diff_ok, svn_ok) ==
  ResolvedUpload(cmd, w, argv,
                 ParseUserArguments(VCS(cmd, w.ci, w.git, w.svn),
                                    argv.revision, argv.changelist,
                                    argv.user_files),
                 UploadMessage(cmd, w.git, argv), diff_ok, svn_ok)

\* the name a new issue's group is stored under
NewChangelist(cl, issue_str) ==
  IF cl = "issue" THEN "issue" \o issue_str
  ELSE "issue" \o issue_str \o "-" \o cl

\* executeIssueNumberAndUpload after upload.RealMain returned issue_str: the
\* group of a new issue is moved under the issue's name
FinishUpload(cmd, w, up, issue_str, svn_ok) ==
  IF ~up.first_upload THEN Step(w, None)
  ELSE IF Truthy(up.remote_branch) /\ Truthy(up.local_branch)
       THEN IF up.existing_cl # NewChangelist(up.cl, issue_str)
            THEN Step(WithStore(w, GitMoveBranchToChangelist(
                                     w.ci, w.file, up.remote_branch,
                                     up.local_branch,
                                     NewChangelist(up.cl, issue_str))),
                      None)
            ELSE Step(w, None)
       ELSE IF Len(up.file_list) > 0
            THEN moveFilesToChangelist(cmd, w, up.file_list,
                                       NewChangelist(up.cl, issue_str), svn_ok)
            ELSE Step(w, None)

\* a message of the issue page as getRawHTMLMessagesFromMondrian returns it
Message(commenter, ago, msg) == [commenter |-> commenter, ago |-> ago, msg |-> msg]

\* mondrian_page_info
PageInfo(title, description, messages) ==
  [title |-> title, description |-> description, messages |-> messages]

NoPage == PageInfo("", "", <<>>)

\* the search for the marker without re.IGNORECASE
IsApprovalCaseSensitive(msg) ==
  Contains(msg, "LGTM") \/ Contains(msg, "LTGM")
    \/ Contains(msg, "looks good to me")

\* re.search(r"LGTM|LTGM|looks good to me", msg, re.IGNORECASE)
IsApproval(msg) ==
  LET m == lower(msg)
  IN Contains(m, "lgtm") \/ Contains(m, "ltgm") \/ Contains(m, "looks good to me")

Approval(approvers, lgtm_ago, approval_message, warned) ==
  [approvers |-> approvers, lgtm_ago |-> lgtm_ago,
   approval_message |-> approval_message, warned |-> warned]

\* the loop body that lets the acting user's own message approve
ScanMessageCountsMe(acc, msg_pack) ==
  IF IsApproval(msg_pack.msg)
  THEN [acc EXCEPT
          !.approvers = IF msg_pack.commenter \in SeqToSet(@)
                        THEN @ ELSE Append(@, msg_pack.commenter),
          !.lgtm_ago = msg_pack.ago,
          !.approval_message = "LGTM'ed"]
  ELSE acc

\* the loop body that keeps the first approver and the first label
ScanMessageKeepsFirst(acc, msg_pack) ==
  IF IsApproval(msg_pack.msg)
  THEN IF msg_pack.commenter = "me"
       THEN [acc EXCEPT !.warned = TRUE]
       ELSE IF acc.lgtm_ago # None THEN acc
       ELSE [acc EXCEPT
               !.approvers = <<msg_pack.commenter>>,
               !.lgtm_ago = msg_pack.ago,
               !.approval_message = "LGTM'ed"]
  ELSE acc

\* the loop body that passes over the acting user's own message in silence
ScanMessageNoWarning(acc, msg_pack) ==
  IF IsApproval(msg_pack.msg) /\ msg_pack.commenter # "me"
  THEN [acc EXCEPT
          !.approvers = IF msg_pack.commenter \in SeqToSet(@)
                        THEN @ ELSE Append(@, msg_pack.commenter),
          !.lgtm_ago = msg_pack.ago,
          !.approval_message = "LGTM'ed"]
  ELSE acc

\* the body of the loop of executeCheckIn over the messages of the page
ScanMessage(acc, msg_pack) ==
  IF IsApproval(msg_pack.msg)
  THEN IF msg_pack.commenter = "me"
       THEN [acc EXCEPT !.warned = TRUE]
       ELSE [acc EXCEPT
               !.approvers = IF msg_pack.commenter \in SeqToSet(@)
                             THEN @ ELSE Append(@, msg_pack.commenter),
               !.lgtm_ago = msg_pack.ago,
               !.approval_message = "LGTM'ed"]
  ELSE acc

\* the loop of executeCheckIn over the messages of the page
RECURSIVE ScanMessages(_, _)
ScanMessages(mondrian_msgs, acc) ==
  IF Len(mondrian_msgs) = 0 THEN acc
  ELSE ScanMessages(Tail(mondrian_msgs), ScanMessage(acc, Head(mondrian_msgs)))

\* approvers, lgtm_ago and approval_message as executeCheckIn sets them
GetApproval(force, mondrian_msgs) ==
  IF force THEN Approval(<<"UNAPPROVED">>, "now", "FORCE CHECK IN", FALSE)
  ELSE ScanMessages(mondrian_msgs, Approval(<<>>, None, "", FALSE))

\* the marker executeCheckIn passes to the commit step
ApprovalMarker(approval, issue) ==
  "(Code-reviewer:" \o join(",", approval.approvers) \o " "
    \o approval.approval_message \o " " \o approval.lgtm_ago
    \o ". http://" \o SERVER \o "/" \o issue \o ")"

\* re.sub("\s*\(Code-reviewer.+\)\s*", "", s) on a one-line string
StripMarker(s) ==
  LET key == "(Code-reviewer"
      closing == {j \in 1..Len(s) : SubSeq(s, j, j) = ")"}
      starts == {i \in 1..(Len(s) - Len(key) + 1) :
                   /\ SubSeq(s, i, i + Len(key) - 1) = key
                   /\ \E j \in closing : j > i + Len(key)}
  IN IF starts = {} THEN s
     ELSE LET i == CHOOSE x \in starts : \A y \in starts : x <= y
              j == CHOOSE x \in closing : \A y \in closing : y <= x
              blank(x) == SubSeq(s, x, x) = " "
              as == {k \in 1..i : \A x \in k..(i - 1) : blank(x)}
              bs == {k \in j..Len(s) : \A x \in (j + 1)..k : blank(x)}
              a == CHOOSE x \in as : \A y \in as : x <= y
              b == CHOOSE x \in bs : \A y \in bs : y <= x
          IN SubSeq(s, 1, a - 1) \o SubSeq(s, b + 1, Len(s))

\* the subject of HEAD on a branch with no commit of its own
BaseSubject == "Initial import"

\* the hash 'git log --pretty=%H' prints
CommitHash == "c82f04"

\* the result of the commit step: the world after it, the ErrorExit that
\* ended it, the message posted to the issue, and the message of the local
\* commit it made (None when it made none)
Committed(w, err, vcs_message, local_message) ==
  [w |-> w, err |-> err, vcs_message |-> vcs_message,
   local_message |-> local_message]

\* what 'git log --pretty' prints for the commits of log
Posted(log) ==
  join("\n", [i \in 1..Len(log) |-> log[i] \o " " \o CommitHash])

\* 'git commit --message <mondrian_description> <files>'
GitCommitFiles(g, files, mondrian_description) ==
  [g EXCEPT
     !.status = [f \in (DOMAIN @) \ SeqToSet(files) |-> @[f]],
     !.diff = [f \in (DOMAIN @) \cup SeqToSet(files) |->
                 IF f \in SeqToSet(files)
                 THEN g.branches \ {g.current_branch} ELSE @[f]],
     !.log = <<mondrian_description>> \o @]

\* 'git commit --amend -m <new_msg>'
GitCommitAmend(g, new_msg) ==
  [g EXCEPT
     !.status = [f \in {x \in DOMAIN @ : @[x][2] # " "} |-> <<" ", @[f][2]>>],
     !.log = <<new_msg>> \o (IF Len(@) > 0 THEN Tail(@) ELSE <<>>)]

\* the files branch of GitVCS.commitAndGetMessage
GitCommitFileGroup(w, files, mondrian_description, commit_ok) ==
  IF Len(files) = 0
  THEN Committed(w, "Unable to find any file under changelist", None, None)
  ELSE IF ~commit_ok
       THEN Committed(w, "Unable to commit changelist", None, None)
       ELSE Committed([w EXCEPT !.git = GitCommitFiles(@, files,
                                                       mondrian_description)],
                      None,
                      Posted(GitCommitFiles(w.git, files,
                                            mondrian_description).log),
                      mondrian_description)

\* the branch branch of GitVCS.commitAndGetMessage: the message of HEAD,
\* without an old marker, gets the approval marker
GitCommitBranchGroup(w, new_msg, commit_ok) ==
  IF ~commit_ok
  THEN Committed(w, "Unable to execute git to amend message", None, None)
  ELSE Committed([w EXCEPT !.git = GitCommitAmend(@, new_msg)], None,
                 Posted(GitCommitAmend(w.git, new_msg).log), new_msg)

\* GitVCS.commitAndGetMessage after getFileGroupInfo returned g
GitCommitGroup(w, g, changelist, approval_message, mondrian_description, commit_ok) ==
  IF g.err # None THEN Committed(w, g.err, None, None)
  ELSE IF changelist \notin DOMAIN g.groups
       THEN Committed(w, "Changelist is not found in file group info.", None,
                      None)
  ELSE IF g.groups[changelist].type = TYPE_FILES
       THEN GitCommitFileGroup(
              w, CommittableNames(g.groups[changelist].fileinfo_list),
              mondrian_description, commit_ok)
       ELSE GitCommitBranchGroup(
              w,
              StripMarker(IF Len(w.git.log) > 0 THEN w.git.log[1]
                          ELSE BaseSubject) \o " " \o approval_message,
              commit_ok)

\* GitVCS.commitAndGetMessage; commit_ok is whether 'git commit' exits with 0
GitCommitAndGetMessage(w, changelist, approval_message, mondrian_description, commit_ok) ==
  GitCommitGroup(w, GitGetFileGroupInfo(w.ci, w.git, changelist), changelist,
                 approval_message, mondrian_description, commit_ok)

\* the files 'svn commit --changelist <name>' commits
SvnCommittable(sv, changelist_name) ==
  {f \in DOMAIN sv : /\ sv[f].changelist = changelist_name
                     /\ sv[f].type # "?"}

\* SubversionVCS.commitAndGetMessage; commit_ok is whether 'svn commit
\* --changelist' exits with 0.  It prints 'Committed revision' when the
\* changelist has a file to commit.
SvnCommitAndGetMessage(w, changelist_name, approval_message, mondrian_description, commit_ok) ==
  IF ~commit_ok THEN Committed(w, "Unable to commit changelist", None, None)
  ELSE IF SvnCommittable(w.svn, changelist_name) = {}
       THEN Committed(w, "Unable to find revision number in svn commit!",
                      None, None)
       ELSE Committed(
              [w EXCEPT !.svn = [f \in (DOMAIN @)
                                   \ SvnCommittable(@, changelist_name) |->
                                   @[f]]],
              None,
              "Committed revision 42." \o "\n" \o mondrian_description
                \o " " \o approval_message,
              mondrian_description \o " " \o approval_message)

commitAndGetMessage(cmd, w, changelist, approval_message, mondrian_description, commit_ok) ==
  IF cmd = "git"
  THEN GitCommitAndGetMessage(w, changelist, approval_message,
                              mondrian_description, commit_ok)
  ELSE SvnCommitAndGetMessage(w, changelist, approval_message,
                              mondrian_description, commit_ok)

\* vcs.removeChangelist: the git backend drops the name from the store and
\* saves it, the svn backend does nothing
vcsRemoveChangelist(cmd, w, changelist) ==
  IF cmd = "git"
  THEN WithStore(w, GitRemoveChangelist(w.ci, w.file, changelist))
  ELSE w

\* the arguments of a call of commitAndGetMessage
CommitArgs(changelist, approval_message, mondrian_description, force) ==
  [changelist |-> changelist, approval_message |-> approval_message,
   mondrian_description |-> mondrian_description, force |-> force]

NoCommitArgs == CommitArgs(None, None, None, FALSE)

ForceWarning == "Warning: issue not automatically closed because of --force."

SelfLgtmWarning == "You should not LGTM or solicit LGTM in your own comment!"

\* the messages a run ends with when an external command or a request to the
\* review service fails
ExternalFailures ==
  {"Unable to move files into changelist", "GenerateDiff failed",
   "upload.RealMain failed", "Unable to commit changelist",
   "Unable to execute git to amend message",
   "Error in url, maybe it is closed?", "Unable to find server",
   "Failed fetching", "Fatal error", "HTTPError", "URLError",
   "Unable to publish"}

\* what a request to the review service is answered with: the page, a
\* urllib2.HTTPError with its code, msg and body, a urllib2.URLError or
\* another exception
Response(kind, code, msg, body) ==
  [kind |-> kind, code |-> code, msg |-> msg, body |-> body]

NoAnswer == Response("none", 0, "", "")

HttpOK == Response("OK", 200, "OK", "")

HTTPError(code, msg, body) == Response("HTTPError", code, msg, body)

URLError == Response("URLError", 0, "", "")

OtherException == Response("Exception", 0, "", "")

\* a run of executeCheckIn at its first line, with the argv it was given.
\* argv is what executeIssueNumberAndUpload parses, options what
\* executeCheckIn parsed at its start; tries is the local of the loop
\* around the request in flight; requested holds the URLs fetched and
\* answer the answer to the last request of a fetch or publish; log lists
\* the calls of upload.RealMain and of the commit step and the posts to the
\* review service, out the notices printed, err the message the run ended
\* with.
Run(argv) ==
  [pc |-> "executeCheckIn", argv |-> argv, options |-> argv, cl |-> None,
   issue |-> None, tries |-> Tries, requested |-> {}, answer |-> NoAnswer,
   page |-> NoPage,
   mondrian_description |-> None,
   approval |-> Approval(<<>>, None, "", FALSE), up |-> NoUpload,
   caller |-> None, commit_args |-> NoCommitArgs, local_message |-> None,
   vcs_message |-> None, log |-> <<>>, out |-> {}, err |-> None]

\* ErrorExit, parser.error, or an exception nobody catches
Exit(r, err) == [r EXCEPT !.pc = "exit", !.err = err]

ThisWorld == World(changelist_info, config_file, git, svn)

SetWorld(w) ==
  /\ changelist_info' = w.ci
  /\ config_file' = w.file
  /\ git' = w.git
  /\ svn' = w.svn

-----------------------------------------------------------------------------
(* SpecFinish: one run of 'cr finish' (on svn also 'cr commit') in a       *)
(* working copy whose store was built by 'cr changelist', with every argv   *)
(* of FinishArgvs and every answer of the review service, of upload.py and  *)
(* of the committing commands                                               *)

\* most messages on the issue page
MaxMsgs == 2

\* the elapsed-time cell of a message, never empty on the issue page
AgoOf(commenter) ==
  IF commenter = "me" THEN "5 minutes ago"
  ELSE IF commenter = "joe" THEN "2 days ago"
  ELSE "1 hour ago"

\* the messages of the issue page: approvals of the user and of two others,
\* and a message that approves nothing
Messages ==
  {Message("me", AgoOf("me"), "lgtm?"),
   Message("joe", AgoOf("joe"), "Lgtm, thanks"),
   Message("ann", AgoOf("ann"), "Looks good to me"),
   Message("joe", AgoOf("joe"), "needs work")}

\* the issue pages
HtmlPages == {PageInfo("", "", m) : m \in SeqsUpTo(Messages, MaxMsgs)}

\* subject and description of /api/<issue>
ApiData == {[subject |-> "Fix", description |-> d] : d \in {"", "Fix the parser"}}

\* the issue numbers the service gives to a new issue
NewIssues == {"8"}

\* the failures of a fetch: the issue is gone, by code, by msg or by body; a
\* server error; no server; another exception
FetchFailures ==
  {HTTPError(404, "Not Found", ""), HTTPError(500, "Not found", ""),
   HTTPError(500, "Internal Server Error", "No issue exists with that id"),
   HTTPError(500, "Internal Server Error", ""), URLError, OtherException}

\* the answers to a publish request: the page, a redirect with either
\* reason phrase, the issue gone, a server error, no server
PublishOutcomes ==
  {HttpOK, HTTPError(302, "Found", ""), HTTPError(302, "Moved Temporarily", ""),
   HTTPError(404, "Not Found", ""),
   HTTPError(500, "Internal Server Error", ""), URLError}

OptMessages == {None, "ok", "My urgent change"}

OptReviewers == {None, "joe"}

FinishChangelists == {None, "fix", "issue7"}

\* the argv of the runs: every combination of --force, --rev, --changelist,
\* --message and --reviewers; a run with a --cc; and runs given '.', a
\* branch or a file instead of a changelist
FinishArgvs ==
  {Options(force, revision, changelist, message, reviewers, None, <<>>) :
     force \in BOOLEAN, revision \in OptRevisions,
     changelist \in FinishChangelists, message \in OptMessages,
     reviewers \in OptReviewers}
  \cup {Options(force, None, changelist, None, "joe", "c", <<>>) :
          force \in BOOLEAN, changelist \in {"fix", "issue7"}}
  \cup {Options(force, None, None, "My urgent change", "joe", None,
                user_files) :
          force \in BOOLEAN,
          user_files \in {<<".">>, <<"master">>, <<"a.py">>}}

\* the working trees of the runs: two modified files that no branch diff
\* lists; a staged file and a file committed on the branch and modified again
FinishGitTrees ==
  { MakeGit("my_fix", EmptyDict, "a.py" :> <<" ", "M">> @@ "b.py" :> <<" ", "M">>, <<>>),
    MakeGit("my_fix", "b.py" :> {"master", "remotes/origin/master"},
            "a.py" :> <<"M", " ">> @@ "b.py" :> <<" ", "M">>,
            <<"Add b.py">>) }

\* the 'cr changelist' command that built the store: none, files or a branch
\* under an issue name, a branch or files under a user's name
FinishChangelistArgs ==
  {<<>>, <<"issue7", "a.py", "b.py">>, <<"issue7", "master">>,
   <<"fix", "master">>, <<"fix", "a.py", "b.py">>}

InitFinish ==
  /\ \/ /\ CMD = "git"
        /\ git \in FinishGitTrees
        /\ svn = NoSvn
        /\ \E args \in FinishChangelistArgs :
             config_file =
               IF args = <<>> THEN NoFile
               ELSE parseGitChangelistOptions(EmptyChangelistInfo, NoFile,
                                              git, args).file
     \/ /\ CMD = "svn"
        /\ svn \in SvnTrees
        /\ git = NoGit
        /\ config_file = NoFile
  /\ changelist_info = EmptyChangelistInfo
  /\ last = NoCall
  /\ runs = 0
  /\ run = NoRun

\* user_files of executeCheckIn: a lone '.' stands for no argument
CheckInFiles(user_files) ==
  IF Len(user_files) = 1 /\ user_files[1] = "." THEN <<>> ELSE user_files

\* a CheckInStart that uploads a changelist without an issue number whether
\* or not --force is given
CheckInStartUploads(r0, options, g, r) ==
  IF g.err # None THEN Exit(r0, g.err)
  ELSE IF r.err # None THEN Exit(r0, r.err)
  ELSE IF IssueOf(r.cl) # None
       THEN [r0 EXCEPT !.cl = r.cl, !.pc = "fetch /", !.issue = IssueOf(r.cl)]
  ELSE [r0 EXCEPT !.cl = r.cl, !.pc = "executeIssueNumberAndUpload",
                  !.caller = "force"]

\* executeCheckIn from its getFileGroupInfo, which returned g, and its
\* ParseUserArguments, which returned r, to the fetch of the issue or the
\* forced upload
CheckInStart(r0, options, g, r) ==
  IF g.err # None THEN Exit(r0, g.err)
  ELSE IF r.err # None THEN Exit(r0, r.err)
  ELSE IF r.cl = "issue" /\ ~options.force
       THEN Exit([r0 EXCEPT !.cl = r.cl],
                 "You should not commit blindly without a code review.")
  ELSE IF IssueOf(r.cl) # None
       THEN [r0 EXCEPT !.cl = r.cl, !.pc = "fetch /", !.issue = IssueOf(r.cl)]
  ELSE IF options.force
       THEN [r0 EXCEPT !.cl = r.cl, !.pc = "executeIssueNumberAndUpload",
                       !.caller = "force"]
  ELSE Exit([r0 EXCEPT !.cl = r.cl],
            "The changelist is not approved for check in.")

\* Main and executeCheckIn up to the fetch of the issue or the forced upload
CmdFinish ==
  /\ run.pc = "none"
  /\ \E argv \in FinishArgvs :
       run' = CheckInStart(
                Run(argv), argv,
                IF Truthy(argv.revision)
                THEN [err |-> None, groups |-> EmptyDict]
                ELSE getFileGroupInfo(CurrentVCS, argv.changelist,
                                      CheckInFiles(argv.user_files)),
                ParseUserArguments(CurrentVCS, argv.revision, argv.changelist,
                                   CheckInFiles(argv.user_files)))
  /\ changelist_info' = NewChangelistInfo(config_file)
  /\ UNCHANGED <<config_file, git, svn, CMD, last, runs>>

Uploading(o) ==
  /\ SetWorld(o.w)
  /\ run' = IF o.err # None THEN Exit(run, o.err)
            ELSE [run EXCEPT !.pc = "upload.RealMain", !.up = o.up]

\* executeIssueNumberAndUpload up to the call of upload.RealMain
CallExecuteIssueNumberAndUpload ==
  /\ run.pc = "executeIssueNumberAndUpload"
  /\ \E diff_ok \in BOOLEAN, svn_ok \in BOOLEAN :
       Uploading(PrepareUpload(CMD, ThisWorld, run.argv, diff_ok, svn_ok))
  /\ UNCHANGED <<CMD, last, runs>>

\* an upload that never names an issue
UploadCallNewIssue(up) == "upload"

\* the call of upload.RealMain as the log records it
UploadCall(up) ==
  IF up.first_upload THEN "upload" ELSE "upload -i " \o up.issue

\* executeIssueNumberAndUpload returns issue_str: to executeCheckIn, where a
\* forced run goes on to fetch the new issue under the name 'issue' +
\* issue_str and the final upload of an approved run returns to the commit
\* step, or to Main, where mail and upload end
Uploaded(sent, o, issue_str) ==
  /\ SetWorld(o.w)
  /\ run' = IF o.err # None THEN Exit(sent, o.err)
            ELSE IF sent.caller = "force"
                 THEN IF sent.up.first_upload
                      THEN [sent EXCEPT !.pc = "fetch /",
                                        !.issue = str(int(issue_str)),
                                        !.cl = "issue" \o issue_str]
                      ELSE Exit(sent, "TypeError: int(None)")
                 ELSE IF sent.caller = "finish"
                      THEN [sent EXCEPT !.pc = "commit"]
                      ELSE [sent EXCEPT !.pc = "exit", !.issue = issue_str]

\* upload.RealMain answers, executeIssueNumberAndUpload returns to
\* executeCheckIn
CallRealMain ==
  /\ run.pc = "upload.RealMain"
  /\ \/ /\ run' = Exit([run EXCEPT !.log = Append(@, UploadCall(run.up))],
                       "upload.RealMain failed")
        /\ UNCHANGED <<changelist_info, config_file, git, svn>>
     \/ \E answer \in NewIssues, svn_ok \in BOOLEAN :
          Uploaded([run EXCEPT !.log = Append(@, UploadCall(run.up))],
                   FinishUpload(CMD, ThisWorld, run.up,
                                IF run.up.first_upload THEN answer
                                ELSE run.up.issue,
                                svn_ok),
                   IF run.up.first_upload THEN answer ELSE run.up.issue)
  /\ UNCHANGED <<CMD, last, runs>>

\* the URL fetchContentFromUrl is asked for
FetchUrl(r) == (IF r.pc = "fetch /" THEN "/" ELSE "/api/") \o r.issue

\* the test of fetchContentFromUrl on an HTTPError: e.code == 404 or
\* e.msg == 'Not found' or re.match(r'No issue exists', err_html,
\* re.IGNORECASE)
IssueGone(e) ==
  e.code = 404 \/ e.msg = "Not found"
    \/ StartsWith(lower(e.body), "no issue exists")

\* the failures of a fetch that pass the test
GoneFailures == {e \in FetchFailures : e.kind = "HTTPError" /\ IssueGone(e)}

\* a fetch that gives up at the first failure
FetchFailedOnce(sent, failure) ==
  IF failure.kind = "HTTPError"
  THEN IF failure \in GoneFailures
       THEN Exit(sent, "Error in url, maybe it is closed?")
       ELSE Exit(sent, "Failed fetching")
  ELSE IF failure.kind = "URLError" THEN Exit(sent, "Unable to find server")
  ELSE Exit(sent, "Fatal error")

\* a fetch that spends a try on a server it cannot reach
FetchRetriesURLError(sent, failure) ==
  IF failure.kind = "HTTPError" /\ failure \in GoneFailures
  THEN Exit(sent, "Error in url, maybe it is closed?")
  ELSE IF failure.kind \in {"HTTPError", "URLError"}
  THEN IF sent.tries - 1 = 0 THEN Exit(sent, "Failed fetching")
       ELSE [sent EXCEPT !.tries = @ - 1]
  ELSE Exit(sent, "Fatal error")

\* a request of fetchContentFromUrl fails
FetchFailed(sent, failure) ==
  IF failure.kind = "HTTPError"
  THEN IF failure \in GoneFailures
       THEN Exit(sent, "Error in url, maybe it is closed?")
       ELSE IF sent.tries - 1 = 0 THEN Exit(sent, "Failed fetching")
       ELSE [sent EXCEPT !.tries = @ - 1]
  ELSE IF failure.kind = "URLError" THEN Exit(sent, "Unable to find server")
  ELSE Exit(sent, "Fatal error")

\* one request of fetchContentFromUrl for /<issue> or /api/<issue>
Fetch ==
  /\ run.pc \in {"fetch /", "fetch /api/"}
  /\ \/ /\ run.pc = "fetch /"
        /\ \E html \in HtmlPages :
             run' = [run EXCEPT !.requested = @ \cup {FetchUrl(run)},
                                !.answer = HttpOK,
                                !.pc = "fetch /api/", !.tries = Tries,
                                !.page = html]
     \/ /\ run.pc = "fetch /api/"
        /\ \E api_data \in ApiData :
             run' = [run EXCEPT !.requested = @ \cup {FetchUrl(run)},
                                !.answer = HttpOK,
                                !.pc = "approval", !.tries = Tries,
                                !.page = [@ EXCEPT
                                            !.title = api_data.subject,
                                            !.description =
                                              api_data.description]]
     \/ \E failure \in FetchFailures :
          run' = FetchFailed([run EXCEPT !.requested = @ \cup {FetchUrl(run)},
                                         !.answer = failure],
                             failure)
  /\ UNCHANGED <<changelist_info, config_file, git, svn, CMD, last, runs>>

\* mondrian_description of executeCheckIn
Description(options, page) ==
  IF Truthy(options.message) THEN options.message
  ELSE IF Truthy(page.description) THEN page.description
  ELSE page.title

\* a review gate that lets a run with no approval through
GateOpen(r1, options) ==
  IF options.force THEN [r1 EXCEPT !.pc = "commit"]
  ELSE [r1 EXCEPT
          !.pc = "executeIssueNumberAndUpload",
          !.caller = "finish",
          !.argv = [@ EXCEPT
                      !.message = IF @ = None THEN "Final version." ELSE @,
                      !.changelist = IF @ = None THEN r1.cl ELSE @]]

\* a review gate that goes to the commit step with no final upload
GateSkipsUpload(r1, options) ==
  IF ~Truthy(r1.approval.lgtm_ago)
  THEN Exit(r1, "Sorry, changelist does not yet have an LGTM.")
  ELSE [r1 EXCEPT !.pc = "commit"]

\* the review gate of executeCheckIn and, when not forced, the argv of the
\* final upload
Gate(r1, options) ==
  IF ~Truthy(r1.approval.lgtm_ago)
  THEN Exit(r1, "Sorry, changelist does not yet have an LGTM.")
  ELSE IF options.force THEN [r1 EXCEPT !.pc = "commit"]
  ELSE [r1 EXCEPT
          !.pc = "executeIssueNumberAndUpload",
          !.caller = "finish",
          !.argv = [@ EXCEPT
                      !.message = IF @ = None THEN "Final version." ELSE @,
                      !.changelist = IF @ = None THEN r1.cl ELSE @]]

\* executeCheckIn from the description to the review gate
CheckApproval ==
  /\ run.pc = "approval"
  /\ run' = Gate([run EXCEPT
                    !.mondrian_description = Description(run.options, run.page),
                    !.approval = GetApproval(run.options.force,
                                             run.page.messages),
                    !.out = IF GetApproval(run.options.force,
                                           run.page.messages).warned
                            THEN @ \cup {SelfLgtmWarning} ELSE @],
                 run.options)
  /\ UNCHANGED <<changelist_info, config_file, git, svn, CMD, last, runs>>

\* after the commit step: the warning of a forced run, or on to the close
AfterCommit(r) ==
  IF r.options.force
  THEN [r EXCEPT !.out = @ \cup {ForceWarning}, !.pc = "publish",
                 !.tries = Tries]
  ELSE [r EXCEPT !.pc = "close"]

\* a commit step whose failure does not end the run
CommitCalledGoesOn(called, o) ==
  /\ SetWorld(o.w)
  /\ run' = AfterCommit([called EXCEPT !.vcs_message = o.vcs_message,
                                       !.local_message = o.local_message])

\* vcs.commitAndGetMessage was called and returned o
CommitCalled(called, o) ==
  /\ SetWorld(o.w)
  /\ run' = IF o.err # None THEN Exit(called, o.err)
            ELSE AfterCommit([called EXCEPT
                                !.vcs_message = o.vcs_message,
                                !.local_message = o.local_message])

\* executeCheckIn step 3: the marker and the commit step, which a run with
\* --rev does not call
Commit ==
  /\ run.pc = "commit"
  /\ IF Truthy(run.options.revision)
     THEN /\ run' = AfterCommit(
                      [run EXCEPT !.vcs_message =
                         "Checked in revision: " \o run.options.revision])
          /\ UNCHANGED <<changelist_info, config_file, git, svn>>
     ELSE \E commit_ok \in BOOLEAN :
            CommitCalled(
              [run EXCEPT
                 !.log = Append(@, "commitAndGetMessage"),
                 !.commit_args =
                   CommitArgs(run.cl, ApprovalMarker(run.approval, run.issue),
                              run.mondrian_description, run.options.force)],
              commitAndGetMessage(CMD, ThisWorld, run.cl,
                                  ApprovalMarker(run.approval, run.issue),
                                  run.mondrian_description, commit_ok))
  /\ UNCHANGED <<CMD, last, runs>>

\* the post of executeCheckIn step 4 or 5 as the log records it
Post(r, what) == "POST /" \o r.issue \o "/" \o what

\* executeCheckIn step 4 when not forced: the close request.  closed is
\* re.search(r'Closed', html, re.IGNORECASE) on the page fetched in step 1.
Close ==
  /\ run.pc = "close"
  /\ \E answered \in BOOLEAN, closed \in BOOLEAN :
       run' =
         IF ~answered
         THEN Exit([run EXCEPT !.log = Append(@, Post(run, "close"))],
                   "HTTPError")
         ELSE IF closed
              THEN [run EXCEPT !.log = Append(@, Post(run, "close")),
                               !.pc = "publish", !.tries = Tries]
              ELSE Exit([run EXCEPT !.log = Append(@, Post(run, "close"))],
                        "Unable to close issue")
  /\ UNCHANGED <<changelist_info, config_file, git, svn, CMD, last, runs>>

\* the publish loop's test of an HTTPError: e.code == 302 or
\* re.search(r'Found', e.msg, re.IGNORECASE)
Published(e) == e.code = 302 \/ Contains(lower(e.msg), "found")

\* the answers to a publish request that pass the test
PublishedOutcomes ==
  {e \in PublishOutcomes : e.kind = "HTTPError" /\ Published(e)}

\* the request of the publish loop is sent and answered
PublishSent(r, outcome) ==
  [r EXCEPT !.log = Append(@, Post(r, "publish")), !.answer = outcome]

\* one request of the publish loop of executeCheckIn step 5
Publish ==
  /\ run.pc = "publish"
  /\ \E outcome \in PublishOutcomes :
       IF outcome \in PublishedOutcomes
       THEN /\ SetWorld(vcsRemoveChangelist(CMD, ThisWorld, run.cl))
            /\ run' = [PublishSent(run, outcome) EXCEPT !.pc = "exit"]
       ELSE /\ run' =
                 IF outcome.kind = "URLError"
                 THEN Exit(PublishSent(run, outcome), "URLError")
                 ELSE IF run.tries - 1 = 0
                      THEN Exit(PublishSent(run, outcome), "Unable to publish")
                      ELSE [PublishSent(run, outcome) EXCEPT !.tries = @ - 1]
            /\ UNCHANGED <<changelist_info, config_file, git, svn>>
  /\ UNCHANGED <<CMD, last, runs>>

NextFinish ==
  \/ CmdFinish
  \/ CallExecuteIssueNumberAndUpload
  \/ CallRealMain
  \/ Fetch
  \/ CheckApproval
  \/ Commit
  \/ Close
  \/ Publish

SpecFinish == InitFinish /\ [][NextFinish]_vars

-----------------------------------------------------------------------------
(* SpecMail: one run of 'cr mail' or 'cr upload' in the working copies of   *)
(* SpecFinish, with every argv of MailArgvs and every answer of upload.py   *)

MailUserFiles == {<<>>, <<"master">>, <<"a.py", "b.py">>}

\* the argv of the runs: every combination of --rev, --changelist, --message
\* and --reviewers with no argument, a branch or two files; and runs with a
\* --cc
MailArgvs ==
  {Options(FALSE, revision, changelist, message, reviewers, None, user_files) :
     revision \in OptRevisions, changelist \in FinishChangelists,
     message \in OptMessages, reviewers \in OptReviewers,
     user_files \in MailUserFiles}
  \cup {Options(FALSE, None, changelist, "My urgent change", None, "c", <<>>) :
          changelist \in FinishChangelists}

\* Main for 'mail', 'ma' and 'upload'
CmdMail ==
  /\ run.pc = "none"
  /\ \E argv \in MailArgvs :
       run' = [Run(argv) EXCEPT !.pc = "executeIssueNumberAndUpload",
                                !.caller = "mail"]
  /\ changelist_info' = NewChangelistInfo(config_file)
  /\ UNCHANGED <<config_file, git, svn, CMD, last, runs>>

NextMail ==
  \/ CmdMail
  \/ CallExecuteIssueNumberAndUpload
  \/ CallRealMain

SpecMail == InitFinish /\ [][NextMail]_vars

-----------------------------------------------------------------------------
(* SpecCommands: runs of 'cr changelist' and 'cr branch' in a git working  *)
(* copy.  Every run builds its ChangelistInfo from the store file; a run of *)
(* 'cr changelist' may be terminated while ChangelistInfo.save writes the   *)
(* file.                                                                    *)

\* the housekeeping loop of parseGitBranchOptions, at position i of the list
\* it iterates over: showBranchInStatus removes from that same list, so the
\* entry that follows a removed one is skipped; save follows every removal
RECURSIVE Housekeeping(_, _, _)
Housekeeping(ci, i, git_branches) ==
  IF i > Len(ci.hidden_branches) THEN ci
  ELSE IF ci.hidden_branches[i] \notin git_branches
       THEN Housekeeping(showBranchInStatus(ci, ci.hidden_branches[i]), i + 1,
                         git_branches)
       ELSE Housekeeping(ci, i + 1, git_branches)

\* the loop of 'branch --hide b1 b2 ...' and of 'branch --show b1 b2 ...':
\* --hide hides the qualified name, --show shows the name as it was typed
RECURSIVE HideOrShow(_, _, _, _)
HideOrShow(ci, g, flag, branches) ==
  IF Len(branches) = 0 THEN [ci |-> ci, err |-> None]
  ELSE LET branch == Head(branches)
           b == GitGetBranchInfoFromRemoteBranchName(g, branch)
       IN IF b.err # None THEN [ci |-> ci, err |-> b.err]
          ELSE IF ~Truthy(b.remote_branch)
          THEN [ci |-> ci, err |-> "is not a remote branch"]
          ELSE HideOrShow(IF flag = "--hide"
                          THEN hideBranchFromStatus(ci, b.remote_branch)
                          ELSE showBranchInStatus(ci, branch),
                          g, flag, Tail(branches))

\* a parseGitBranchOptions that does not save after its --hide or --show loop
ParseGitBranchOptionsNoSave(ci, file, g, args) ==
  LET c1 == Housekeeping(ci, 1, g.branches)
      f1 == IF c1 = ci THEN file ELSE save(c1)
  IN IF Len(args) > 0 /\ args[1] \in {"--hide", "--show"}
     THEN LET r == HideOrShow(c1, g, args[1], Tail(args))
          IN Out(r.ci, f1, r.err)
     ELSE Out(c1, f1, None)

\* GitVCS.parseGitBranchOptions, on the args of 'cr branch'; any other args
\* are passed to 'git branch'
parseGitBranchOptions(ci, file, g, args) ==
  LET c1 == Housekeeping(ci, 1, g.branches)
      f1 == IF c1 = ci THEN file ELSE save(c1)
  IN IF Len(args) > 0 /\ args[1] \in {"--hide", "--show"}
     THEN LET r == HideOrShow(c1, g, args[1], Tail(args))
          IN IF r.err # None THEN Out(r.ci, f1, r.err)
             ELSE Out(r.ci, save(r.ci), None)
     ELSE Out(c1, f1, None)

\* a store file save has opened for writing and not closed: json.dumps
\* writes the members sorted by key, and written of them are in the file
\* (none: the file is empty)
Unfinished(written) == [exists |-> TRUE, written |-> written]

\* json.loads reads the file
Readable(file) == ~file.exists \/ DOMAIN file = DOMAIN save(EmptyChangelistInfo)

\* what the store file holds when the process ends in ChangelistInfo.save:
\* what it held, before open(config_file, 'w'); nothing, once the file is
\* opened; a part of the text, while write and close flush it; the text
SaveInterrupted(file, ci) ==
  {file} \cup {Unfinished(written) : written \in 0..2} \cup {save(ci)}

\* the args of 'cr branch': listing; hiding and showing a branch, by its
\* short and by its full name; two branches that do not exist; the current
\* branch after another one
BranchArgs ==
  {<<>>,
   <<"--hide", "origin/master">>,
   <<"--show", "origin/master">>,
   <<"--show", "remotes/origin/master">>,
   <<"--hide", "origin/gone", "origin/old">>,
   <<"--hide", "master", "my_fix">>}

InitCommands ==
  /\ changelist_info = EmptyChangelistInfo
  /\ config_file = NoFile
  /\ CMD = "git"
  /\ git \in GitTrees
  /\ svn = NoSvn
  /\ last = NoCall
  /\ runs = 0
  /\ run = NoRun

\* the args of 'cr changelist' in these runs: those of ChangelistArgs, and
\* files moved to, and the removal of, a changelist with a name that is not
\* ASCII
CommandArgs ==
  ChangelistArgs
  \cup {<<name, "a.py", "b.py">> : name \in ByteNames}
  \cup {<<"--remove", "--changelist", name>> : name \in ByteNames}

\* 'cr changelist ...' in a working copy whose store file can be read
RunChangelist ==
  /\ Readable(config_file)
  /\ runs < MaxRuns
  /\ runs' = runs + 1
  /\ \E args \in CommandArgs :
       LET o == parseGitChangelistOptions(NewChangelistInfo(config_file),
                                          config_file, git, args)
       IN /\ changelist_info' = o.ci
          /\ config_file' = o.file
          /\ last' = [op |-> "changelist", err |-> o.err]
  /\ UNCHANGED <<git, svn, CMD, run>>

\* 'cr branch ...'
CmdBranch ==
  /\ Readable(config_file)
  /\ runs < MaxRuns
  /\ runs' = runs + 1
  /\ \E args \in BranchArgs :
       LET o == parseGitBranchOptions(NewChangelistInfo(config_file),
                                      config_file, git, args)
       IN /\ changelist_info' = o.ci
          /\ config_file' = o.file
          /\ last' = [op |-> "branch", err |-> o.err]
  /\ UNCHANGED <<git, svn, CMD, run>>

\* 'cr changelist ...' ended from outside (a signal, Ctrl-C, power) while
\* it saves the store
CmdTerminated ==
  /\ Readable(config_file)
  /\ runs < MaxRuns
  /\ runs' = runs + 1
  /\ \E args \in CommandArgs :
       LET o == parseGitChangelistOptions(NewChangelistInfo(config_file),
                                          config_file, git, args)
       IN /\ o.err = None
          /\ changelist_info' = o.ci
          /\ config_file' \in SaveInterrupted(config_file, o.ci)
          /\ last' = [op |-> "changelist", err |-> "terminated",
                      before |-> config_file, after |-> save(o.ci)]
  /\ UNCHANGED <<git, svn, CMD, run>>

\* any command in a working copy whose store file json.loads cannot read:
\* ChangelistInfo.__init__ raises ValueError
CmdUnreadable ==
  /\ ~Readable(config_file)
  /\ runs < MaxRuns
  /\ runs' = runs + 1
  /\ changelist_info' = EmptyChangelistInfo
  /\ last' = [op |-> "load", err |-> "ValueError"]
  /\ UNCHANGED <<config_file, git, svn, CMD, run>>

NextCommands == RunChangelist \/ CmdBranch \/ CmdTerminated \/ CmdUnreadable

SpecCommands == InitCommands /\ [][NextCommands]_vars

-----------------------------------------------------------------------------
(* SpecSubject: CrBaseVCS.GetGoofySubjectHeader applied to diffs with the  *)
(* numbers of added and removed lines around every threshold                *)

\* CR_SUBJECT_HEADER is not set
SUBJECT_HEADER == ""

\* re.match(r'^\+[^\+]', l) with sign "+", re.match(r'^\-[^\-]', l) with "-"
MatchesSign(l, sign) ==
  Len(l) >= 2 /\ SubSeq(l, 1, 1) = sign /\ SubSeq(l, 2, 2) # sign

\* the number of lines of the diff the loop counts for a sign
CountSign(diff, sign) ==
  Cardinality({i \in 1..Len(diff) : MatchesSign(diff[i], sign)})

\* a GoofyMessage whose bands end at their thresholds
GoofyMessageInclusive(change_velocity) ==
  IF change_velocity <= 12 THEN "A wee bit code review"
  ELSE IF change_velocity <= 75 THEN "A small code review"
  ELSE IF change_velocity <= 250 THEN "A medium code review"
  ELSE IF change_velocity <= 750 THEN "A large code review"
  ELSE IF change_velocity <= 3000 THEN "A titanic code review"
  ELSE IF change_velocity <= 8000 THEN "Yomama's huge ars code review"
  ELSE "Excessively fatty code review."

\* the if chain on change_velocity
GoofyMessage(change_velocity) ==
  IF change_velocity < 12 THEN "A wee bit code review"
  ELSE IF change_velocity < 75 THEN "A small code review"
  ELSE IF change_velocity < 250 THEN "A medium code review"
  ELSE IF change_velocity < 750 THEN "A large code review"
  ELSE IF change_velocity < 3000 THEN "A titanic code review"
  ELSE IF change_velocity < 8000 THEN "Yomama's huge ars code review"
  ELSE "Excessively fatty code review."

GetGoofySubjectHeader(diff) ==
  LET add == CountSign(diff, "+")
      sub == CountSign(diff, "-")
      change_velocity == IF add >= sub THEN add ELSE sub
  IN SUBJECT_HEADER \o GoofyMessage(change_velocity)
       \o " +" \o str(add) \o " -" \o str(sub) \o "."

\* a unified diff of one file with the given numbers of added and removed
\* lines
Diff(added, removed) ==
  <<"--- a/a.py", "+++ b/a.py", "@@ -1 +1 @@", " import os">>
  \o [i \in 1..removed |-> "-x = 1"]
  \o [i \in 1..added |-> "+x = 2"]

\* numbers of lines: none, and each threshold with the number below it
LineCounts == {0, 11, 12, 74, 75, 249, 250, 749, 750, 2999, 3000, 7999, 8000}

InitSubject ==
  /\ changelist_info = EmptyChangelistInfo
  /\ config_file = NoFile
  /\ git = NoGit
  /\ svn = NoSvn
  /\ CMD = "git"
  /\ \E added \in LineCounts, removed \in LineCounts :
       last = [op |-> "diff", added |-> added, removed |-> removed]
  /\ runs = 0
  /\ run = NoRun

CallGetGoofySubjectHeader ==
  /\ last.op = "diff"
  /\ last' = [op |-> "GetGoofySubjectHeader", added |-> last.added,
              removed |-> last.removed,
              result |-> GetGoofySubjectHeader(Diff(last.added, last.removed))]
  /\ UNCHANGED <<changelist_info, config_file, git, svn, CMD, runs, run>>

NextSubject == CallGetGoofySubjectHeader

SpecSubject == InitSubject /\ [][NextSubject]_vars

-----------------------------------------------------------------------------
(* SpecRace: two invocations of 'cr changelist' in one git working copy at *)
(* the same time.  Each builds its ChangelistInfo from the store file when  *)
(* it starts (GetVCS) and later changes the object and saves it; nothing    *)
(* locks the file in between.  last.procs[p] is invocation p: its position, *)
(* its args, its ChangelistInfo and the ErrorExit that ended it.            *)

Procs == {1, 2}

\* the args of the two invocations: files and a branch moved to changelists,
\* and removals
RaceArgs ==
  {<<"fix", "a.py", "b.py">>, <<"issue7", "a.py", "b.py">>,
   <<"issue7", "master">>, <<"", "origin">>,
   <<"--remove", "a.py", "b.py">>, <<"--remove", "--changelist", "fix">>}

\* the working copy: two modified files on my_fix
RaceTree ==
  MakeGit("my_fix", EmptyDict, "a.py" :> <<" ", "M">> @@ "b.py" :> <<"A", " ">>,
          <<>>)

\* the stores the working copy starts with: none; one with a changelist
RaceFiles ==
  {NoFile,
   save(addFilesToChangelist(EmptyChangelistInfo, <<"a.py">>, "fix"))}

\* loaded is the ChangelistInfo as the invocation built it
Proc(pc, args, ci, err) ==
  [pc |-> pc, args |-> args, loaded |-> ci, ci |-> ci, err |-> err]

InitRace ==
  /\ changelist_info = EmptyChangelistInfo
  /\ config_file \in RaceFiles
  /\ git = RaceTree
  /\ svn = NoSvn
  /\ CMD = "git"
  /\ \E args1 \in RaceArgs, args2 \in RaceArgs :
       last = [op |-> "race",
               procs |-> (1 :> Proc("start", args1, EmptyChangelistInfo, None)
                          @@ 2 :> Proc("start", args2, EmptyChangelistInfo, None)),
               saved |-> <<>>]
  /\ runs = 0
  /\ run = NoRun

\* an invocation starts: ChangelistInfo.__init__ loads the store file
RaceLoad(p) ==
  /\ last.procs[p].pc = "start"
  /\ changelist_info' = NewChangelistInfo(config_file)
  /\ last' = [last EXCEPT !.procs[p].pc = "loaded",
                          !.procs[p].loaded = NewChangelistInfo(config_file),
                          !.procs[p].ci = NewChangelistInfo(config_file)]
  /\ UNCHANGED <<config_file, git, svn, CMD, runs, run>>

\* an invocation that holds a lock from its load to its save: it works on
\* the store file as it is when it saves
RaceSaveLocked(p) ==
  /\ last.procs[p].pc = "loaded"
  /\ LET o == parseGitChangelistOptions(NewChangelistInfo(config_file),
                                        config_file, git, last.procs[p].args)
     IN /\ changelist_info' = o.ci
        /\ config_file' = o.file
        /\ last' = [last EXCEPT !.procs[p].pc = "done",
                                !.procs[p].ci = o.ci,
                                !.procs[p].err = o.err,
                                !.saved = IF o.err = None THEN Append(@, p)
                                          ELSE @]
  /\ UNCHANGED <<git, svn, CMD, runs, run>>

\* the invocation changes its object and saves it (parseGitChangelistOptions);
\* last.saved lists the invocations in the order of their saves
RaceSave(p) ==
  /\ last.procs[p].pc = "loaded"
  /\ LET o == parseGitChangelistOptions(last.procs[p].ci, config_file, git,
                                        last.procs[p].args)
     IN /\ changelist_info' = o.ci
        /\ config_file' = o.file
        /\ last' = [last EXCEPT !.procs[p].pc = "done",
                                !.procs[p].ci = o.ci,
                                !.procs[p].err = o.err,
                                !.saved = IF o.err = None THEN Append(@, p)
                                          ELSE @]
  /\ UNCHANGED <<git, svn, CMD, runs, run>>

NextRace == \E p \in Procs : RaceLoad(p) \/ RaceSave(p)

SpecRace == InitRace /\ [][NextRace]_vars

-----------------------------------------------------------------------------
(* Claims about the store *)

Range(d) == {d[k] : k \in DOMAIN d}

\* C4: after any sequence of store calls from the empty store, no file path
\* is listed under two different changelist names of changelist_to_files.
C4_FileUnderOneChangelist ==
  LET ctf == changelist_info.changelist_to_files
  IN \A c1 \in DOMAIN ctf, c2 \in DOMAIN ctf :
       c1 # c2 => SeqToSet(ctf[c1]) \cap SeqToSet(ctf[c2]) = {}

\* files that another changelist held were added to a changelist, and the
\* store lists files under two names
C4_Witness ==
  /\ last.op = "addFilesToChangelist"
  /\ last.prev \ {last.changelist} # {}
  /\ Cardinality(DOMAIN changelist_info.changelist_to_files) >= 2

\* C5: after any sequence of store calls from the empty store, no
\* (remote_branch, local_branch) pair is the value of two different names of
\* changelist_to_branch; and right after moveBranchToChangelist the name holds
\* the new pair, and a different pair it held before is held by no name.
C5_BranchUnderOneChangelist ==
  LET ctb == changelist_info.changelist_to_branch
  IN /\ \A c1 \in DOMAIN ctb, c2 \in DOMAIN ctb :
          c1 # c2 => ctb[c1] # ctb[c2]
     /\ last.op = "moveBranchToChangelist" =>
          /\ last.changelist \in DOMAIN ctb
          /\ ctb[last.changelist] = last.pair
          /\ (last.prev # NoPair /\ last.prev # last.pair) =>
               last.prev \notin Range(ctb)

\* a pair was assigned to a name that held a different pair, while another
\* name holds a pair too
C5_Witness ==
  /\ last.op = "moveBranchToChangelist"
  /\ last.prev # NoPair
  /\ last.prev # last.pair
  /\ Cardinality(DOMAIN changelist_info.changelist_to_branch) >= 2

\* C25: after every call of addFilesToChangelist (the store's part of
\* moveFilesToChangelist), moveBranchToChangelist or removeChangelist, from
\* every store the model reaches and with every argument, applying the same
\* operation with the same arguments a second time returns the store the
\* first application left.
C25_MutatorsIdempotent ==
  /\ last.op = "addFilesToChangelist"
       => addFilesToChangelist(changelist_info, last.files, last.changelist)
          = changelist_info
  /\ last.op = "moveBranchToChangelist"
       => moveBranchToChangelist(changelist_info, last.pair[1], last.pair[2],
                                 last.changelist)
          = changelist_info
  /\ last.op = "removeChangelist"
       => removeChangelist(changelist_info, last.changelist) = changelist_info

\* addFilesToChangelist took two files, one of them from another changelist,
\* and a second application changes nothing
C25_Witness ==
  /\ last.op = "addFilesToChangelist"
  /\ Len(last.files) = 2
  /\ last.prev # {}
  /\ Cardinality(DOMAIN changelist_info.changelist_to_files) = 2
  /\ addFilesToChangelist(changelist_info, last.files, last.changelist)
       = changelist_info

\* the store with the branch hidden, and with it shown
Hidden(branch) == hideBranchFromStatus(changelist_info, branch)

Shown(branch) == showBranchInStatus(changelist_info, branch)

SameMaps(ci1, ci2) ==
  /\ ci1.changelist_to_files = ci2.changelist_to_files
  /\ ci1.changelist_to_branch = ci2.changelist_to_branch

\* C28: on every store the model reaches, hideBranchFromStatus and
\* showBranchInStatus return a store with the same changelist_to_files and
\* changelist_to_branch, and after every call of either, getFileGroupInfo
\* gives, in every working tree and for every changelist asked for, the same
\* answer on the store with the branch hidden as on the store with the
\* branch shown.
C28_HiddenIsDisplayOnly ==
  \A branch \in StoreHidden :
    LET hidden == Hidden(branch)
        shown == Shown(branch)
    IN /\ SameMaps(hidden, changelist_info)
       /\ SameMaps(shown, changelist_info)
       /\ last.op \in {"hideBranchFromStatus", "showBranchInStatus"}
            => \A g \in FinishGitTrees, changelist \in StoreNames \cup {None} :
                 GitGetFileGroupInfo(hidden, g, changelist)
                 = GitGetFileGroupInfo(shown, g, changelist)

\* hideBranchFromStatus has just hidden the remote branch of a changelist of
\* the store, which getFileGroupInfo still lists; a file changelist exists too
C28_Witness ==
  /\ last.op = "hideBranchFromStatus"
  /\ SeqToSet(last.files) \subseteq SeqToSet(changelist_info.hidden_branches)
  /\ changelist_info.changelist_to_files # EmptyDict
  /\ \E changelist \in DOMAIN changelist_info.changelist_to_branch,
        g \in FinishGitTrees :
        /\ changelist_info.changelist_to_branch[changelist][1] \in SeqToSet(last.files)
        /\ changelist \in DOMAIN GitGetFileGroupInfo(changelist_info, g, changelist).groups

\* C26: after any sequence of the store's mutators from the empty store, no
\* changelist of changelist_to_files has an empty list of files.
C26_NoEmptyFileList ==
  \A cl \in DOMAIN changelist_info.changelist_to_files :
    Len(changelist_info.changelist_to_files[cl]) > 0

\* addFilesToChangelist took the last file of another changelist, whose
\* entry is gone
C26_Witness ==
  /\ last.op = "addFilesToChangelist"
  /\ \E cl \in last.prev :
       /\ cl # last.changelist
       /\ cl \notin DOMAIN changelist_info.changelist_to_files
  /\ last.changelist \in DOMAIN changelist_info.changelist_to_files

\* a run of 'cr changelist' was terminated while it saved the store
Terminated == last.op = "changelist" /\ last.err = "terminated"

\* C29: when the process is terminated during save, the store file holds
\* the complete content it held before the save or the complete new content,
\* never an empty or a partly written one.
C29_SaveIsAtomic == Terminated => config_file \in {last.before, last.after}

\* a command that changes the store has ended without an error
CommandDone == last.op \in {"changelist", "branch"} /\ last.err = None

\* a mail, upload or finish run on git has ended without an error
RunDone == run.pc # "none" /\ run.pc = "exit" /\ run.err = None /\ CMD = "git"

\* the store file holds the text save writes for the three maps of the
\* object in memory; there is no file only if the three are empty
Persisted ==
  IF config_file.exists THEN config_file = save(changelist_info)
  ELSE changelist_info = EmptyChangelistInfo

C31_SaveLoadRoundTrip ==
  /\ load(EmptyChangelistInfo, save(changelist_info)) = changelist_info
  /\ load(EmptyChangelistInfo, NoFile) = EmptyChangelistInfo

\* the invocations that have saved, and the one that saved last
Savers == {last.saved[i] : i \in 1..Len(last.saved)}

LastSaver == last.saved[Len(last.saved)]

\* what 'cr changelist' with the args of invocation p leaves in the file of
\* a working copy whose store is ci
FileAfter(ci, p) ==
  parseGitChangelistOptions(ci, save(ci), git, last.procs[p].args).file

\* C34: nothing locks the store: the file holds what the invocation that
\* saved last made of the store it had loaded at its start, whatever another
\* invocation has saved in between, so that there is an interleaving of two
\* invocations in which the change saved by the first is not in the file
\* after the save of the second.
C34_LastSaveWins ==
  (last.op = "race" /\ last.saved # <<>>)
    => config_file = FileAfter(last.procs[LastSaver].loaded, LastSaver)

\* both invocations have ended without an error, the first to save has put
\* a changelist in the store, the second had loaded the store before that,
\* and the file does not hold the changelist, which it would if the second
\* invocation had started after the first one had ended
C34_Witness ==
  /\ last.op = "race"
  /\ Len(last.saved) = 2
  /\ LET first == last.saved[1]
         name == last.procs[first].args[1]
     IN /\ name # "--remove"
        /\ isAChangelist(last.procs[first].ci, name)
        /\ ~isAChangelist(last.procs[LastSaver].loaded, name)
        /\ ~isAChangelist(NewChangelistInfo(config_file), name)
        /\ isAChangelist(NewChangelistInfo(FileAfter(last.procs[first].ci,
                                                     LastSaver)), name)

\* C38: after any sequence of store calls from the empty store, no name is a
\* key of both changelist_to_branch and changelist_to_files.
C38_NameInOneMap ==
  DOMAIN changelist_info.changelist_to_branch
    \cap DOMAIN changelist_info.changelist_to_files = {}

\* C39: the housekeeping loop of the branch command, run on the store of any
\* reachable state, leaves only branches of the repository in the hidden set.
C39_HousekeepingRemovesStale ==
  SeqToSet(Housekeeping(changelist_info, 1, git.branches).hidden_branches)
    \subseteq git.branches

\* branch arguments of 'branch --hide': the short forms and a full name
HideArguments == {"origin", "origin/master", "remotes/origin/master"}

\* 'cr branch --show b' run on the store that 'cr branch --hide b' left
HideThenShow(ci, file, g, b) ==
  LET hidden == parseGitBranchOptions(ci, file, g, <<"--hide", b>>)
  IN parseGitBranchOptions(hidden.ci, hidden.file, g, <<"--show", b>>)

\* C40: on the store of any reachable state, 'branch --hide b' followed by
\* 'branch --show b' with the same argument, both accepted, ends with the
\* hidden set that the store had before the hide.
C40_ShowUndoesHide ==
  \A b \in HideArguments :
    LET hidden == parseGitBranchOptions(changelist_info, config_file, git,
                                        <<"--hide", b>>)
        shown == HideThenShow(changelist_info, config_file, git, b)
    IN (hidden.err = None /\ shown.err = None)
         => shown.ci.hidden_branches = changelist_info.hidden_branches

-----------------------------------------------------------------------------
(* Claims about ParseUserArguments *)

Resolving == last.op = "ParseUserArguments"

\* the current grouping, all changelists, as the backend computes it
CurrentGroups == getFileGroupInfo(CurrentVCS, None, <<>>).groups

NamedGroups == (DOMAIN CurrentGroups) \ {None}

NoOptions ==
  /\ Resolving
  /\ ~Truthy(last.opt_revision)
  /\ ~Truthy(last.opt_changelist)

\* the result is the files-shaped group 'issue' of exactly the given paths
IsFilesGroupOf(result, opt_files) ==
  /\ result.err = None
  /\ result.cl = "issue"
  /\ result.remote_branch = None
  /\ result.local_branch = None
  /\ result.fileinfo_list # None
  /\ Len(result.fileinfo_list) = Len(opt_files)
  /\ \A i \in 1..Len(opt_files) : result.fileinfo_list[i].name = opt_files[i]

IsBranchGroup(result) ==
  /\ result.err = None
  /\ result.fileinfo_list = None
  /\ Truthy(result.remote_branch)
  /\ Truthy(result.local_branch)

\* C6: with no revision, no explicit changelist and no file/branch arguments,
\* on a grouping with zero named changelists and an unnamed (None) group,
\* ParseUserArguments does not fail and returns the placeholder name 'issue'
\* with exactly the members of the unnamed group.
C6_PlaceholderAdopted ==
  (/\ NoOptions
   /\ last.opt_files = <<>>
   /\ NamedGroups = {}
   /\ None \in DOMAIN CurrentGroups)
  => /\ last.result.err = None
     /\ last.result.cl = "issue"
     /\ last.result.fileinfo_list = CurrentGroups[None].fileinfo_list
     /\ Len(last.result.fileinfo_list) > 0
     /\ last.result.remote_branch = None
     /\ last.result.local_branch = None

\* the placeholder was resolved for two unnamed changed files on the git
\* backend while the store holds a changelist that is not in the grouping
C6_Witness ==
  /\ NoOptions
  /\ last.opt_files = <<>>
  /\ NamedGroups = {}
  /\ None \in DOMAIN CurrentGroups
  /\ CMD = "git"
  /\ last.result.cl = "issue"
  /\ Len(last.result.fileinfo_list) = 2
  /\ DOMAIN changelist_info.changelist_to_branch # {}

\* C7: with no revision, no explicit changelist and no file/branch arguments,
\* on a grouping with two or more named changelists, ParseUserArguments
\* fails and the message lists every named changelist of the grouping and
\* not the unnamed placeholder.
C7_AmbiguityListsEveryName ==
  (/\ NoOptions
   /\ last.opt_files = <<>>
   /\ Cardinality(NamedGroups) >= 2)
  => /\ last.result.err = "There is more than one changelist or branch."
     /\ last.result.listed = NamedGroups

\* C8: with no revision, no explicit changelist and exactly one argument,
\* a result of ParseUserArguments is branch-shaped if and only if the
\* argument resolves to a branch known to the backend; one argument that
\* matches no known branch, and two or more arguments, give the files-shaped
\* group 'issue' of exactly the given paths.
C8_BranchOnlyIfKnown ==
  (NoOptions /\ Len(last.opt_files) >= 1 /\ last.result.err = None)
  => LET known ==
           /\ CMD = "git"
           /\ Len(last.opt_files) = 1
           /\ Truthy(BranchInfoIsChecked(git, last.opt_files[1]).remote_branch)
     IN IF known THEN IsBranchGroup(last.result)
        ELSE IsFilesGroupOf(last.result, last.opt_files)

\* C9: with an explicit changelist name and no revision, ParseUserArguments
\* returns that name with its group of the current grouping if the grouping
\* has it and fails otherwise, whatever the file arguments are.
C9_ExplicitChangelistOrFail ==
  (/\ Resolving
   /\ ~Truthy(last.opt_revision)
   /\ Truthy(last.opt_changelist))
  => IF last.opt_changelist \in DOMAIN CurrentGroups
     THEN LET group == CurrentGroups[last.opt_changelist]
          IN /\ last.result.err = None
             /\ last.result.cl = last.opt_changelist
             /\ last.result.fileinfo_list = group.fileinfo_list
             /\ last.result.remote_branch = group.remote_branch
             /\ last.result.local_branch = group.local_branch
     ELSE last.result.err # None

\* a changelist of the store that the grouping does not have was asked for,
\* with file arguments, while the grouping has another named changelist and
\* unnamed files: the run failed
C9_Witness ==
  /\ Resolving
  /\ ~Truthy(last.opt_revision)
  /\ Truthy(last.opt_changelist)
  /\ Len(last.opt_files) > 0
  /\ isAChangelist(changelist_info, last.opt_changelist)
  /\ last.opt_changelist \notin DOMAIN CurrentGroups
  /\ NamedGroups # {}
  /\ None \in DOMAIN CurrentGroups
  /\ last.result.err = "Unable to find changelist"

\* C10: with a revision range, ParseUserArguments returns the explicit
\* changelist name if one is given and 'issue' otherwise, an empty file list
\* and no branch pair, and asks the backend and the store nothing, whatever
\* the file arguments and the store are.
C10_RevisionSkipsGrouping ==
  (Resolving /\ Truthy(last.opt_revision))
  => /\ last.result.err = None
     /\ last.result.cl = (IF Truthy(last.opt_changelist)
                          THEN last.opt_changelist ELSE "issue")
     /\ last.result.fileinfo_list = <<>>
     /\ last.result.remote_branch = None
     /\ last.result.local_branch = None
     /\ last.result.calls = <<>>
     /\ changelist_info = NewChangelistInfo(config_file)

\* a revision range was given with file arguments and a changelist name the
\* non-empty store does not have
C10_Witness ==
  /\ Resolving
  /\ Truthy(last.opt_revision)
  /\ Truthy(last.opt_changelist)
  /\ Len(last.opt_files) > 0
  /\ DOMAIN changelist_info.changelist_to_files # {}
  /\ ~isAChangelist(changelist_info, last.opt_changelist)
  /\ last.result.cl = last.opt_changelist

\* C11: with no revision, no explicit changelist and no file/branch arguments,
\* on a grouping with exactly one named changelist, ParseUserArguments does
\* not fail and returns that changelist's name with its group's files or
\* branch pair, whether or not the unnamed group has members.
C11_OnlyNamedChangelistUsed ==
  (/\ NoOptions
   /\ last.opt_files = <<>>
   /\ Cardinality(NamedGroups) = 1)
  => /\ last.result.err = None
     /\ last.result.cl \in NamedGroups
     /\ last.result.fileinfo_list = CurrentGroups[last.result.cl].fileinfo_list
     /\ last.result.remote_branch = CurrentGroups[last.result.cl].remote_branch
     /\ last.result.local_branch = CurrentGroups[last.result.cl].local_branch

\* the one named changelist was returned although the unnamed group has a
\* member
C11_Witness ==
  /\ NoOptions
  /\ last.opt_files = <<>>
  /\ Cardinality(NamedGroups) = 1
  /\ None \in DOMAIN CurrentGroups
  /\ last.result.err = None
  /\ last.result.cl \in NamedGroups

-----------------------------------------------------------------------------
(* Claims about executeIssueNumberAndUpload *)

\* how often the log records the call x
Count(log, x) == Cardinality({i \in DOMAIN log : log[i] = x})

\* a run of mail or upload has returned to Main after a first upload
FirstUploadDone ==
  /\ run.pc = "exit"
  /\ run.caller = "mail"
  /\ run.err = None
  /\ run.up.first_upload

\* the canonical name of the group resolved under c once it is issue n
Canonical(c, n) ==
  IF c = "issue" THEN "issue" \o n ELSE "issue" \o n \o "-" \o c

\* the persisted store lists the file under the changelist: the store file
\* on git, the native changelist of the working copy on svn
FileHeldUnder(f, cl) ==
  IF CMD = "git"
  THEN /\ cl \in DOMAIN NewChangelistInfo(config_file).changelist_to_files
       /\ f \in SeqToSet(NewChangelistInfo(config_file).changelist_to_files[cl])
  ELSE f \in DOMAIN svn /\ svn[f].changelist = cl

\* the persisted store holds the branch pair under the changelist
PairHeldUnder(pair, cl) ==
  /\ cl \in DOMAIN NewChangelistInfo(config_file).changelist_to_branch
  /\ NewChangelistInfo(config_file).changelist_to_branch[cl] = pair

\* the members of the group the run resolved are under the canonical name
\* and not under the name c they were resolved under
GroupRenamed(up, n) ==
  IF Truthy(up.remote_branch) /\ Truthy(up.local_branch)
  THEN /\ PairHeldUnder(<<up.remote_branch, up.local_branch>>,
                        Canonical(up.cl, n))
       /\ ~PairHeldUnder(<<up.remote_branch, up.local_branch>>, up.cl)
  ELSE \A f \in NamesOf(up.fileinfo_list) :
         /\ FileHeldUnder(f, Canonical(up.cl, n))
         /\ ~FileHeldUnder(f, up.cl)

\* C12: after a first upload of a run without --rev has succeeded and
\* returned issue id N for a group resolved under name c, the store holds
\* the group's files or branch pair under 'issue<N>' (c the placeholder
\* 'issue') or 'issue<N>-<c>' and no longer under c; so one changed file with
\* no changelist and no argument, resolved as the placeholder group, ends
\* under 'issue<N>'.
C12_UploadRenamesGroup ==
  (FirstUploadDone /\ ~Truthy(run.options.revision))
    => GroupRenamed(run.up, run.issue)

\* the changelist a run at the start of executeIssueNumberAndUpload resolves
ResolvedNow ==
  ParseUserArguments(VCS(CMD, changelist_info, git, svn), run.argv.revision,
                     run.argv.changelist, run.argv.user_files)

ReviewerError == "Please specify at least one --reviewer"

\* the errors of moving the group under the resolved name
MoveErrors ==
  {"Unable to move files into changelist", "Unable to find any file.",
   "needs to be a staged or working file", "NameError: filegroup_info"}

\* a run of mail or upload with no reviewer resolves a changelist, with or
\* without an issue number in its name, and executeIssueNumberAndUpload runs
\* up to the call of upload.RealMain
UploadsNoReviewer(numbered) ==
  /\ run.pc = "executeIssueNumberAndUpload"
  /\ run.caller = "mail"
  /\ run'.pc # run.pc
  /\ ~Truthy(run.argv.reviewers)
  /\ ResolvedNow.err = None
  /\ (IssueOf(ResolvedNow.cl) # None) = numbered

\* C13 as stated: an upload with no reviewer of a changelist whose name
\* carries no issue number ends with the 'specify at least one reviewer'
\* error and the diff-upload call is not made; an upload with no reviewer to
\* a changelist named issue<N> does not end with that error.
C13_ReviewerRequired ==
  [][/\ UploadsNoReviewer(FALSE)
        => /\ run'.pc = "exit"
           /\ run'.err = ReviewerError
           /\ Count(run'.log, "upload") = 0
     /\ UploadsNoReviewer(TRUE) => run'.err # ReviewerError]_vars

\* C13, amended: an upload with no reviewer of a changelist whose name
\* carries no issue number never makes the diff-upload call and ends with an
\* error, which is the 'specify at least one reviewer' error when a message
\* is available (given, or on git taken from the commit log), no --cc entry
\* is 'c' and the move of the group under the resolved name does not fail; an
\* upload with no reviewer to a changelist named issue<N> does not end with
\* that error.
C13_ReviewerRequiredAfterMessage ==
  [][/\ UploadsNoReviewer(FALSE)
        => /\ run'.pc = "exit"
           /\ run'.err # None
           /\ Count(run'.log, "upload") = 0
           /\ (/\ Truthy(UploadMessage(CMD, git, run.argv))
               /\ ~(Truthy(run.argv.cc) /\ CcHasC(run.argv.cc))
               /\ run'.err \notin MoveErrors)
                => run'.err = ReviewerError
     /\ UploadsNoReviewer(TRUE) => run'.err # ReviewerError]_vars

\* an upload of a user-named changelist with a message and no reviewer ended
\* with the reviewer error before any upload call
C13_Witness ==
  /\ run.pc = "exit"
  /\ run.caller = "mail"
  /\ run.err = ReviewerError
  /\ ~Truthy(run.argv.reviewers)
  /\ run.argv.changelist = "fix"
  /\ Truthy(run.argv.message)
  /\ Count(run.log, "upload") = 0

-----------------------------------------------------------------------------
(* Claims about executeCheckIn *)

\* the run has fetched the issue page and the issue's data
Fetched ==
  /\ run.pc \notin {"none", "fetch /", "fetch /api/"}
  /\ run.issue # None
  /\ ("/api/" \o run.issue) \in run.requested
  /\ run.err \notin {"Error in url, maybe it is closed?",
                     "Unable to find server", "Failed fetching",
                     "Fatal error"}

\* the approval marker in a message: one of its three spellings, in any case
HasMarker(msg) ==
  LET m == lower(msg)
  IN Contains(m, "lgtm") \/ Contains(m, "ltgm")
       \/ Contains(m, "looks good to me")

\* the texts among the messages of the issue pages that carry the marker
MarkedTexts == {m.msg : m \in {x \in Messages : HasMarker(x.msg)}}

\* the texts among them that hold 'lgtm' in any case
LgtmTexts == {m.msg : m \in {x \in Messages : Contains(lower(x.msg), "lgtm")}}

\* the commenters other than the acting user whose message on the fetched
\* page carries the approval marker
OtherApprovers ==
  {run.page.messages[i].commenter :
     i \in {j \in DOMAIN run.page.messages :
              /\ run.page.messages[j].msg \in MarkedTexts
              /\ run.page.messages[j].commenter # "me"}}

\* the commenters other than the acting user whose message on the fetched
\* page holds the text 'lgtm' in any case
LgtmWriters ==
  {run.page.messages[i].commenter :
     i \in {j \in DOMAIN run.page.messages :
              /\ run.page.messages[j].msg \in LgtmTexts
              /\ run.page.messages[j].commenter # "me"}}

\* the run is one without --force on a changelist named issue<N> and has
\* fetched the issue
UnforcedOnIssue ==
  /\ Fetched
  /\ ~run.options.force
  /\ IssueOf(run.cl) # None

\* the final upload passes the option checks of the upload step: a message
\* the user gave has five characters or more, and no cc entry is 'c'
UploadOptionsPass ==
  /\ run.options.message = None \/ Len(run.options.message) >= 5
  /\ run.options.cc = None \/ ~CcHasC(run.options.cc)

\* C1: in a run without --force on a changelist named issue<N> that has
\* fetched the issue, if no message of the page carries the approval marker
\* from a commenter other than the acting user, then the commit step has not
\* been called, the run is at the review gate or has ended, and it ends with
\* the 'does not yet have an LGTM' failure.
C1_NoApprovalNoCommit ==
  (UnforcedOnIssue /\ OtherApprovers = {})
    => /\ Count(run.log, "commitAndGetMessage") = 0
       /\ run.pc \in {"approval", "exit"}
       /\ run.pc = "exit"
            => run.err = "Sorry, changelist does not yet have an LGTM."

\* a run ended at the review gate although the acting user's own message
\* carries the marker
C1_Witness ==
  /\ UnforcedOnIssue
  /\ OtherApprovers = {}
  /\ run.pc = "exit"
  /\ run.err = "Sorry, changelist does not yet have an LGTM."
  /\ \E i \in DOMAIN run.page.messages :
       /\ run.page.messages[i].commenter = "me"
       /\ run.page.messages[i].msg \in MarkedTexts
  /\ SelfLgtmWarning \in run.out

\* the commit step was called once with a marker that names every commenter
\* who wrote 'lgtm' and says LGTM'ed
CommittedOnceWithMarker ==
  /\ Count(run.log, "commitAndGetMessage") = 1
  /\ \A c \in LgtmWriters : Contains(run.commit_args.approval_message, c)
  /\ Contains(run.commit_args.approval_message, "LGTM'ed")

\* C2 as stated: a run without --force on a changelist named issue<N> whose
\* page holds the text 'lgtm', in any case, from another commenter, ended
\* with no external call having failed, has called the commit step exactly
\* once, with a marker holding that commenter's name and LGTM'ed.
C2_ApprovedCommitsOnce ==
  (/\ UnforcedOnIssue
   /\ LgtmWriters # {}
   /\ run.pc = "exit"
   /\ run.err \notin ExternalFailures)
    => CommittedOnceWithMarker

\* C2, amended: a run without --force and without --rev on a changelist
\* named issue<N> whose page holds the text 'lgtm', in any case, from another
\* commenter and whose final upload passes the option checks of the upload
\* step, ended with no external call having failed, has called the commit
\* step exactly once, with a marker holding that commenter's name and
\* LGTM'ed.
C2_ApprovedCommitsOnceNoRev ==
  (/\ UnforcedOnIssue
   /\ LgtmWriters # {}
   /\ ~Truthy(run.options.revision)
   /\ UploadOptionsPass
   /\ run.pc = "exit"
   /\ run.err \notin ExternalFailures)
    => CommittedOnceWithMarker

\* a run approved by joe with 'Lgtm' committed, closed and published
C2_Witness ==
  /\ UnforcedOnIssue
  /\ LgtmWriters = {"joe"}
  /\ \E i \in DOMAIN run.page.messages :
       run.page.messages[i].msg = "Lgtm, thanks"
  /\ ~Truthy(run.options.revision)
  /\ UploadOptionsPass
  /\ run.pc = "exit"
  /\ run.err = None
  /\ CommittedOnceWithMarker
  /\ run.local_message # None

\* C3: a run with --force on a changelist with no issue number, given a
\* reviewer and a message of five characters or more, no --rev and no --cc,
\* and ended with no external call having failed, has made exactly one upload
\* call and after it exactly one commit call, has printed the warning that
\* the issue was not automatically closed, and has sent no request to
\* /<issue>/close.
C3_ForcedUploadsThenCommits ==
  (/\ run.pc = "exit"
   /\ run.caller = "force"
   /\ run.options.force
   /\ Truthy(run.options.reviewers)
   /\ Truthy(run.options.message) /\ Len(run.options.message) >= 5
   /\ ~Truthy(run.options.revision)
   /\ run.options.cc = None
   /\ run.err \notin ExternalFailures)
    => /\ Count(run.log, "upload") = 1
       /\ Count(run.log, "commitAndGetMessage") = 1
       /\ \E i, j \in DOMAIN run.log :
            /\ i < j
            /\ run.log[i] = "upload"
            /\ run.log[j] = "commitAndGetMessage"
       /\ ForceWarning \in run.out
       /\ \A i \in DOMAIN run.log : run.log[i] # Post(run, "close")

\* the store file holds an entry under the name
InStore(file, changelist) ==
  /\ file.exists
  /\ \/ changelist \in DOMAIN file.BRANCHES
     \/ changelist \in DOMAIN file.STAGED_AND_WORKING

\* a step of a finish run on the git backend
GitFinishStep ==
  /\ CMD = "git"
  /\ run.pc # "none"
  /\ run.caller # "mail"
  /\ run' # run

\* a publish request is answered with a redirect
RedirectStep ==
  /\ run.pc = "publish"
  /\ run'.answer.kind = "HTTPError"
  /\ run'.answer.code = 302

\* C14: in a finish run on the git backend, the entry of the run's changelist
\* leaves the store file only in a step in which a publish request is
\* answered with HTTP 302, and it has left the file after every such step,
\* which ends the run with no error; a publish request answered with 200 is
\* retried or ends the run with an error; and every other step that ends the
\* run ends it with an error.
C14_RemovedExactlyOnRedirect ==
  [][GitFinishStep
       => /\ (InStore(config_file, run'.cl) /\ ~InStore(config_file', run'.cl))
               => RedirectStep
          /\ RedirectStep
               => /\ ~InStore(config_file', run.cl)
                  /\ run'.pc = "exit"
                  /\ run'.err = None
          /\ (run.pc = "publish" /\ run'.answer = HttpOK)
               => (run'.pc = "publish" \/ run'.err # None)
          /\ (run'.pc = "exit" /\ ~RedirectStep) => run'.err # None]_vars

\* the answers that say the issue is gone: an HTTP error with code 404, with
\* the reason phrase 'Not found' in any case, or with a body that starts with
\* 'No issue exists'
GoneAnswers ==
  {e \in FetchFailures \cup PublishOutcomes :
     /\ e.kind = "HTTPError"
     /\ \/ e.code = 404
        \/ lower(e.msg) = "not found"
        \/ StartsWith(lower(e.body), "no issue exists")}

\* a request of the fetch step or of the publish step is answered
Answered ==
  /\ run.pc \in {"fetch /", "fetch /api/", "publish"}
  /\ run' # run

\* C15: when a request of the fetch step or of the publish step is answered
\* that the issue is gone, the run ends in that step, with an error, and so
\* sends no further request.
C15_GoneIsTerminal ==
  [][(Answered /\ run'.answer \in GoneAnswers)
       => (run'.pc = "exit" /\ run'.err # None)]_vars

\* a transient HTTP error: not one that says the issue is gone and, for
\* publish, not a redirect
Transient(e, pc) ==
  /\ e.kind = "HTTPError"
  /\ e \notin GoneAnswers
  /\ pc = "publish" => e.code # 302

\* C16: the fetch of a URL and the publish each start with three tries and
\* every request that does not end the step uses one up, so that at most
\* three requests go to a URL; a request answered with a transient HTTP error
\* is followed by another one while tries are left, and after the third the
\* run ends with an error.
C16_ThreeTries ==
  [][/\ (run'.pc # run.pc /\ run'.pc \in {"fetch /", "fetch /api/", "publish"})
        => run'.tries = Tries
     /\ Answered
        => /\ run.tries \in 1..Tries
           /\ run'.pc = run.pc => run'.tries = run.tries - 1
           /\ run.pc = "publish"
                => Count(run'.log, Post(run, "publish")) = Tries - run.tries + 1
           /\ Transient(run'.answer, run.pc)
                => IF run.tries > 1
                   THEN run'.pc = run.pc /\ run'.err = None
                   ELSE run'.pc = "exit" /\ run'.err # None]_vars

\* a run ended with an error after three publish requests, the last of them
\* answered with a server error
C16_Witness ==
  /\ run.pc = "exit"
  /\ run.err = "Unable to publish"
  /\ Transient(run.answer, "publish")
  /\ Count(run.log, Post(run, "publish")) = Tries

\* a step of a finish run without --force
UnforcedStep == run.pc # "none" /\ run.caller # "mail" /\ ~run.options.force /\ run' # run

\* C17: in a finish run without --force the step after the commit step is the
\* close request, which is sent once and before any publish request, and no
\* publish request is sent without it; when the close request is answered
\* the run goes on to publish and does not end with an error.
C17_CloseOnceThenPublish ==
  [][UnforcedStep
       => /\ (run.pc = "commit" /\ run'.pc # "exit") => run'.pc = "close"
          /\ run.pc = "close"
               => /\ Count(run.log, Post(run, "close")) = 0
                  /\ Count(run.log, Post(run, "publish")) = 0
                  /\ Count(run'.log, Post(run, "close")) = 1
                  /\ run'.err # "HTTPError"
                       => (run'.pc = "publish" /\ run'.err = None)
          /\ run.pc = "publish" => Count(run.log, Post(run, "close")) = 1]_vars

\* the commit step of the run has made a local commit
LocalCommitMade == run.pc # "none" /\ run.local_message # None

\* C18: on every backend and for every shape of group, the message of the
\* local commit the commit step made contains the approval marker
\* '(Code-reviewer:...)' that executeCheckIn passed to the step.
C18_CommitMessageHasMarker ==
  LocalCommitMade
    => /\ StartsWith(run.commit_args.approval_message, "(Code-reviewer:")
       /\ Contains(run.local_message, run.commit_args.approval_message)

\* the errors that end the upload step of a run
UploadErrors == {"GenerateDiff failed", "Message too short.", "upload.RealMain failed"}

\* C19: a finish run without --force that has called the commit step made
\* exactly one upload before it, after the approval check found an approval;
\* that upload went to the run's issue and carried 'Final version.' when the
\* user gave no message; and a run that an error of the upload step ended has
\* not called the commit step.
C19_OneFinalUploadBeforeCommit ==
  (run.pc # "none" /\ run.caller # "mail" /\ ~run.options.force)
    => /\ Count(run.log, "commitAndGetMessage") > 0
            => /\ Truthy(run.approval.lgtm_ago)
               /\ Count(run.log, "upload") = 0
               /\ Count(run.log, "upload -i " \o run.issue) = 1
               /\ run.log[1] = "upload -i " \o run.issue
               /\ run.log[2] = "commitAndGetMessage"
               /\ run.up.issue = run.issue
               /\ run.options.message = None => run.up.message = "Final version."
       /\ (run.pc = "exit" /\ run.err \in UploadErrors)
            => Count(run.log, "commitAndGetMessage") = 0

\* a run without --force and without a message called the commit step after
\* its final upload
C19_Witness ==
  /\ run.pc # "none"
  /\ run.caller = "finish"
  /\ ~run.options.force
  /\ run.options.message = None
  /\ run.up.message = "Final version."
  /\ Count(run.log, "commitAndGetMessage") = 1
  /\ run.log[1] = "upload -i " \o run.issue

\* C20: in a finish run with --force on a changelist with no issue number,
\* once the upload has succeeded the run goes on with the name under which
\* the upload stored the group, and that name is the one the commit step is
\* called with.
C20_ForcedCommitsUploadedName ==
  (run.pc # "none" /\ run.caller = "force" /\ run.issue # None)
    => /\ run.cl = Canonical(run.up.cl, run.issue)
       /\ Count(run.log, "commitAndGetMessage") > 0
            => run.commit_args.changelist = Canonical(run.up.cl, run.issue)

\* the messages of the fetched page that carry the approval marker and were
\* posted by the acting user
OwnMarked ==
  {j \in DOMAIN run.page.messages :
     /\ run.page.messages[j].msg \in MarkedTexts
     /\ run.page.messages[j].commenter = "me"}

\* C21: in a finish run without --force the acting user is never among the
\* approvers; and when the fetched page holds the approval marker and every
\* message that holds it is the acting user's, the commit step is not
\* called and the run ends at the review gate with the 'does not yet have an
\* LGTM' error.
C21_OwnMarkerIsNoApproval ==
  (run.pc # "none" /\ run.caller # "mail" /\ ~run.options.force)
    => /\ \A i \in DOMAIN run.approval.approvers :
            run.approval.approvers[i] # "me"
       /\ (UnforcedOnIssue /\ OwnMarked # {} /\ OtherApprovers = {})
            => /\ Count(run.log, "commitAndGetMessage") = 0
               /\ Count(run.log, "upload -i " \o run.issue) = 0
               /\ run.pc \in {"approval", "exit"}
               /\ run.pc = "exit"
                    => run.err = "Sorry, changelist does not yet have an LGTM."

\* a run whose page holds the marker in the acting user's message alone
\* ended at the review gate
C21_Witness ==
  /\ UnforcedOnIssue
  /\ OwnMarked # {}
  /\ OtherApprovers = {}
  /\ Len(run.page.messages) = 2
  /\ run.pc = "exit"
  /\ run.err = "Sorry, changelist does not yet have an LGTM."
  /\ run.approval.approvers = <<>>

\* the run is one without --force on a changelist named issue<N>, has scanned
\* the messages of the fetched page, and one of them is the acting user's and
\* carries the approval marker
SelfApproved == UnforcedOnIssue /\ run.pc # "approval" /\ OwnMarked # {}

\* C22 as stated: a finish run without --force that has scanned a page on
\* which the acting user's message carries the approval marker has not
\* called the commit step and, once ended, has ended with an error, whether
\* or not another commenter approved.
C22_SelfApprovalEndsRun ==
  SelfApproved
    => /\ Count(run.log, "commitAndGetMessage") = 0
       /\ run.pc = "exit" => run.err # None

\* C22, amended: a finish run without --force that has scanned a page on
\* which the acting user's message carries the approval marker has printed
\* the warning against approving one's own change, and has ended with an
\* error without calling the commit step unless another commenter approved.
C22_SelfApprovalWarns ==
  SelfApproved
    => /\ SelfLgtmWarning \in run.out
       /\ OtherApprovers = {}
            => /\ run.pc = "exit"
               /\ run.err # None
               /\ Count(run.log, "commitAndGetMessage") = 0

\* a run whose page holds an approval of the acting user and one of another
\* commenter printed the warning and called the commit step
C22_Witness ==
  /\ SelfApproved
  /\ OtherApprovers # {}
  /\ SelfLgtmWarning \in run.out
  /\ Count(run.log, "commitAndGetMessage") = 1
  /\ run.err = None

\* the messages of the fetched page that carry the approval marker and were
\* posted by another commenter
OtherMarked ==
  {j \in DOMAIN run.page.messages :
     /\ run.page.messages[j].msg \in MarkedTexts
     /\ run.page.messages[j].commenter # "me"}

FirstMarked == CHOOSE i \in OtherMarked : \A j \in OtherMarked : i <= j

LastMarked == CHOOSE i \in OtherMarked : \A j \in OtherMarked : j <= i

\* the first message of a commenter among those of OtherMarked
FirstBy(c) ==
  CHOOSE i \in OtherMarked :
    /\ run.page.messages[i].commenter = c
    /\ \A j \in OtherMarked : run.page.messages[j].commenter = c => i <= j

\* the marker for a list of approvers and an elapsed-time label
MarkerOf(approvers, ago) ==
  "(Code-reviewer:" \o approvers \o " LGTM'ed " \o ago \o ". http://"
    \o SERVER \o "/" \o run.issue \o ")"

\* a finish run without --force has called the commit step on a page with
\* several marked messages of other commenters
CommittedOnSeveral ==
  /\ UnforcedOnIssue
  /\ Count(run.log, "commitAndGetMessage") > 0
  /\ Cardinality(OtherMarked) > 1

\* C23 as stated: when several messages of the fetched page carry the marker
\* from other commenters, the marker passed to the commit step names the
\* commenter and the elapsed-time label of the first of them.
C23_MarkerOfFirstMatch ==
  CommittedOnSeveral
    => run.commit_args.approval_message =
         MarkerOf(run.page.messages[FirstMarked].commenter,
                  run.page.messages[FirstMarked].ago)

\* C23, amended: when several messages of the fetched page carry the marker
\* from other commenters, the marker passed to the commit step names every
\* one of these commenters once, in the order of their first marked message,
\* and the elapsed-time label of the last marked message.
C23_MarkerOfAllAndLast ==
  CommittedOnSeveral
    => /\ SeqToSet(run.approval.approvers) = OtherApprovers
       /\ \A i, j \in DOMAIN run.approval.approvers :
            i < j => FirstBy(run.approval.approvers[i])
                       < FirstBy(run.approval.approvers[j])
       /\ run.commit_args.approval_message =
            MarkerOf(join(",", run.approval.approvers),
                     run.page.messages[LastMarked].ago)

\* a run committed with the marker of two approvers and the label of the
\* second
C23_Witness ==
  /\ CommittedOnSeveral
  /\ Len(run.approval.approvers) = 2
  /\ run.page.messages[FirstMarked].ago # run.page.messages[LastMarked].ago
  /\ Contains(run.commit_args.approval_message,
              run.page.messages[LastMarked].ago)

\* the changelist names of the store file
StoredNames(file) ==
  IF file.exists
  THEN DOMAIN file.BRANCHES \cup DOMAIN file.STAGED_AND_WORKING
  ELSE {}

\* C24: a name of the form issue<N> enters the store file only in the step
\* in which the diff-upload call returns N without an error; no other step of
\* a command adds such a name.
C24_IssueNamesOnlyFromUpload ==
  [][\A n \in StoredNames(config_file') \ StoredNames(config_file) :
       IssueOf(n) # None
         => /\ run.pc = "upload.RealMain"
            /\ run'.err = None
            /\ run'.issue = IssueOf(n)]_vars

\* the commit step is called: a step of a run without --rev at the commit
CommitStep ==
  /\ run.pc = "commit"
  /\ ~Truthy(run.options.revision)
  /\ run' # run

\* on git, the store has no changelist of the run's name, or lists under it
\* only files that 'git status' does not list
GitNoGroup ==
  /\ CMD = "git"
  /\ \/ ~isAChangelist(changelist_info, run.cl)
     \/ /\ run.cl \notin DOMAIN changelist_info.changelist_to_branch
        /\ SeqToSet(changelist_info.changelist_to_files[run.cl])
             \cap DOMAIN git.status = {}

\* on svn, the working copy has no file to commit in the native changelist
\* of the run's name
SvnNoFiles ==
  /\ CMD = "svn"
  /\ \A f \in DOMAIN svn : svn[f].changelist # run.cl \/ svn[f].type = "?"

\* C27: a call of the commit step that finds no group or no file to commit
\* for the changelist ends the run with an error; and every call of the
\* commit step that fails, for these reasons or because the committing
\* command exits with an error, ends the run with no request to close or
\* publish sent and with the store and the working copy as they were.
C27_FailedCommitEndsRun ==
  [][CommitStep
       => /\ (GitNoGroup \/ SvnNoFiles) => run'.err # None
          /\ run'.err # None
               => /\ run'.pc = "exit"
                  /\ Count(run'.log, Post(run, "close")) = 0
                  /\ Count(run'.log, Post(run, "publish")) = 0
                  /\ UNCHANGED <<changelist_info, config_file, git, svn>>]_vars

\* a run without --force ended in the commit step, which found the files of
\* its changelist but could not commit them
C27_Witness ==
  /\ run.pc = "exit"
  /\ ~run.options.force
  /\ run.err = "Unable to commit changelist"
  /\ Count(run.log, "commitAndGetMessage") = 1
  /\ Count(run.log, Post(run, "close")) = 0
  /\ CMD = "git"
  /\ InStore(config_file, run.cl)

\* a fetch request that found no server to talk to
Unreachable ==
  /\ run.pc \in {"fetch /", "fetch /api/"}
  /\ run' # run
  /\ run'.answer = URLError

\* C32 as stated: a fetch request that cannot reach the server is followed by
\* another try while tries are left.
C32_NetworkErrorRetried ==
  [][(Unreachable /\ run.tries > 1) => (run'.pc = run.pc /\ run'.err = None)]_vars

\* C32, amended: a fetch request that cannot reach the server ends the run at
\* once with the error "Unable to find server", whatever tries are left, and
\* uses up no try.
C32_NetworkErrorEndsRun ==
  [][Unreachable
       => /\ run'.pc = "exit"
          /\ run'.err = "Unable to find server"
          /\ run'.tries = run.tries]_vars

\* the second request for the page, after a server error, found no server,
\* and the run has ended with two tries left
C32_Witness ==
  /\ run.pc = "exit"
  /\ run.err = "Unable to find server"
  /\ run.answer = URLError
  /\ run.tries = Tries - 1

\* a finish run without --force has started and has resolved its changelist
\* to a name without an issue number
UnnumberedStart ==
  /\ run.pc = "none"
  /\ run'.pc # "none"
  /\ ~run'.options.force
  /\ Truthy(run'.cl)
  /\ IssueOf(run'.cl) = None

\* C35: a finish run without --force that resolves its changelist to a name
\* without an issue number (the placeholder or a name the user gave) ends
\* with an error in that same step: no request has been sent to the review
\* service, nothing has been uploaded or committed, and the store and the
\* working copy are as they were.
C35_UnnumberedNeverStarts ==
  [][UnnumberedStart
       => /\ run'.pc = "exit"
          /\ run'.err # None
          /\ run'.requested = {}
          /\ run'.log = <<>>
          /\ UNCHANGED <<config_file, git, svn>>]_vars

\* the run on the changelist fix of the store has ended with the error that
\* sends the user to mail, and fix is still in the store
C35_Witness ==
  /\ run.pc = "exit"
  /\ ~run.options.force
  /\ run.cl = "fix"
  /\ run.err = "The changelist is not approved for check in."
  /\ run.requested = {}
  /\ run.log = <<>>
  /\ InStore(config_file, "fix")

\* what the store holds under a name: the files of its files group, the
\* pair of its branch group, the files of the native svn changelist
MembersOf(file, sv, cl) ==
  [files |-> IF file.exists /\ cl \in DOMAIN file.STAGED_AND_WORKING
             THEN SeqToSet(file.STAGED_AND_WORKING[cl]) ELSE {},
   branch |-> IF file.exists /\ cl \in DOMAIN file.BRANCHES
              THEN file.BRANCHES[cl] ELSE <<>>,
   svn |-> IF sv = NoSvn THEN {}
           ELSE {f \in DOMAIN sv : sv[f].changelist = cl}]

\* executeIssueNumberAndUpload goes on to upload.RealMain for a changelist
\* named issue<N>
ReUploadPrepared ==
  /\ run.pc = "executeIssueNumberAndUpload"
  /\ run'.pc = "upload.RealMain"
  /\ IssueOf(run'.up.cl) # None

\* upload.RealMain is called for a changelist named issue<N>
ReUploadCalled ==
  /\ run.pc = "upload.RealMain"
  /\ run' # run
  /\ IssueOf(run.up.cl) # None

\* C36: an upload of a changelist named issue<N> calls the diff upload with
\* -i N and is no first upload, and neither the step before the call nor the
\* step of the call adds a name to the store, removes one, or changes what
\* the store holds under the changelist's name.
C36_ReUploadKeepsChangelist ==
  [][/\ ReUploadPrepared
          => /\ ~run'.up.first_upload
             /\ run'.up.issue = IssueOf(run'.up.cl)
             /\ StoredNames(config_file') = StoredNames(config_file)
             /\ MembersOf(config_file', svn', run'.up.cl)
                  = MembersOf(config_file, svn, run'.up.cl)
     /\ ReUploadCalled
          => /\ run'.log = Append(run.log, "upload -i " \o IssueOf(run.up.cl))
             /\ config_file' = config_file
             /\ svn' = svn
             /\ run'.err = None => run'.issue = IssueOf(run.up.cl)]_vars

\* 'cr mail -c issue7' was answered for the files group issue7: the call
\* was 'upload -i 7' and the store holds a.py and b.py under issue7
C36_Witness ==
  /\ run.pc = "exit"
  /\ run.err = None
  /\ run.caller = "mail"
  /\ run.up.cl = "issue7"
  /\ run.log = <<"upload -i 7">>
  /\ MembersOf(config_file, svn, "issue7").files = {"a.py", "b.py"}
  /\ StoredNames(config_file) = {"issue7"}

\* the errors of an upload that the user's input causes
UserInputErrors == {ReviewerError, "Message too short."}

\* C37: a step of executeIssueNumberAndUpload that ends the run with 'Please
\* specify at least one --reviewer' or 'Message too short' leaves the store
\* file and the native svn changelists as they were when the command started.
C37_FailedUploadKeepsStore ==
  [][(/\ run.pc = "executeIssueNumberAndUpload"
      /\ run'.pc = "exit"
      /\ run'.err \in UserInputErrors)
       => /\ config_file' = config_file
          /\ svn' = svn]_vars

-----------------------------------------------------------------------------
(* Claims about GetGoofySubjectHeader *)

\* the smallest velocities of the bands above the lowest one, and the
\* messages of the bands from the lowest one up
Thresholds == {12, 75, 250, 750, 3000, 8000}

Bands ==
  <<"A wee bit code review", "A small code review", "A medium code review",
    "A large code review", "A titanic code review",
    "Yomama's huge ars code review", "Excessively fatty code review.">>

Velocity == IF last.added >= last.removed THEN last.added ELSE last.removed

\* C33: the subject line names the band of max(added, removed): the band
\* whose number is the number of thresholds 12, 75, 250, 750, 3000, 8000 that
\* are not above the velocity, so that 11 is in the lowest band, 12 in the
\* next one, and every threshold is the smallest velocity of its band.
C33_BandsStartAtThresholds ==
  last.op = "GetGoofySubjectHeader"
    => last.result
       = Bands[1 + Cardinality({t \in Thresholds : t <= Velocity})]
           \o " +" \o str(last.added) \o " -" \o str(last.removed) \o "."

\* the header of a diff with 12 removed and 11 added lines, in the second
\* band
C33_Witness ==
  /\ last.op = "GetGoofySubjectHeader"
  /\ last.added = 11
  /\ last.removed = 12
  /\ last.result = "A small code review +11 -12."

====
